---- MODULE Spec2Model ----
(***************************************************************************)
(* Aethereal Drift: the trigger policy, the transmission orchestrator      *)
(* (useTransmissions + generateTransmission + the speech part of the audio *)
(* engine) and the phantom synthesizer.                                    *)
(*                                                                         *)
(* Scheduling model.  The program is single threaded.  Every action below  *)
(* is one task of the event loop run to completion: a handler, a timer     *)
(* callback or the continuation of an awaited promise.  The zustand store  *)
(* notifies its subscribers synchronously from set(), and the components   *)
(* that called useAppStore() are re-rendered, and their changed effects    *)
(* cleaned up and re-run, before the next task starts.  So an action that  *)
(* writes the store ends with ReRender, and the values a callback closed   *)
(* over are those of the store at the start of the task that runs it.      *)
(*                                                                         *)
(* Times are milliseconds (Date.now()).  Coordinates of the phantom        *)
(* synthesizer are exact rationals over a common denominator; rounding of  *)
(* IEEE doubles is not modelled.                                           *)
(***************************************************************************)
EXTENDS Integers, Sequences, FiniteSets, TLC

\* ------------------------------------------------------------------ bounds
MaxNow == 36000        \* the clock stops advancing here
MaxGen == 2            \* generate() calls that may start
MaxReplay == 1         \* replay() calls that may speak
MaxCalls == 2          \* generate() activations that can coexist in the model
MaxId == 4             \* pageids 1..MaxId
MaxLen == 4            \* longest anchor list given to haveArticlesChanged
MaxCoord == 1          \* coordinates 0..MaxCoord, in units of 0.0001 degree
MaxAnchors == 2        \* longest anchor list given to the phantom synthesizer
MaxTitle == 2          \* anchor titles 1..MaxTitle
MaxArrivals == 22      \* setPosition calls followed by the history check
MaxOther == 2          \* of which fixes at the second place
MaxDbCalls == 3         \* getSettings / updateSettings calls that may start
MaxFetch == 3          \* fetchNearbyArticles calls that may start
MaxTicks == 3          \* clock steps between them
MaxText == 4
MaxMeta == 6
MaxWalk == 2
WalkBase == 3
MaxStarts == 3
MaxInits == 3
MaxSaves == 3
MaxMounts == 2
MaxAsks == 2
MaxStamp == 2
RandDen == 4           \* Math.random() returns k / RandDen, k in 0..RandDen-1

\* --------------------------------------------------------- program constants
COOLDOWN_MS == 10000
DEBOUNCE_MS == 500
LOAD_TIMEOUT_MS == 120000
LOAD_LIMIT == 50
TRIGGER_DELAY_MS == 1000
DEFAULT_INTERVAL_S == 60
MIN_INTERVAL_S == 30
TOP_N == 3
HISTORY_CAP == 50
ANCHOR_CAP == 5
HISTORY_TAIL == 19
MAX_AGE_MS == 86400000

Null == -1
StartMs == 1000        \* Date.now() when the app starts (any positive value)
TickSteps == {5000}

Abs(x) == IF x < 0 THEN -x ELSE x
Min(a, b) == IF a < b THEN a ELSE b

\* JavaScript truthiness of a number | null
Truthy(x) == x # Null /\ x # 0

\* --------------------------------------------------------------- trigger policy

\* Array.prototype.slice(0, n)
Slice(s, n) == SubSeq(s, 1, Min(n, Len(s)))

\* new Set(articles.slice(0, 3).map(a => a.pageid))
TopIds(articles) == {Slice(articles, TOP_N)[k] : k \in 1..Len(Slice(articles, TOP_N))}

haveArticlesChanged_AnyChurn(oldArticles, newArticles) ==
    IF Len(oldArticles) = 0 /\ Len(newArticles) = 0 THEN FALSE
    ELSE IF Abs(Len(oldArticles) - Len(newArticles)) >= 2 THEN TRUE
    ELSE Cardinality({id \in TopIds(newArticles) : id \notin TopIds(oldArticles)}) >= 1

haveArticlesChanged_Always(oldArticles, newArticles) ==
    IF Len(oldArticles) = 0 /\ Len(newArticles) = 0 THEN FALSE
    ELSE IF Abs(Len(oldArticles) - Len(newArticles)) >= 2 THEN TRUE
    ELSE Cardinality({id \in TopIds(newArticles) : id \notin TopIds(oldArticles)}) >= 0

haveArticlesChanged(oldArticles, newArticles) ==
    IF Len(oldArticles) = 0 /\ Len(newArticles) = 0 THEN FALSE
    ELSE IF Abs(Len(oldArticles) - Len(newArticles)) >= 2 THEN TRUE
    ELSE LET oldIds == TopIds(oldArticles)
             newIds == TopIds(newArticles)
             changed == Cardinality({id \in newIds : id \notin oldIds})
         IN changed >= 2

shouldTriggerGeneration_NoCooldown(lastGen, intervalMs, articlesChanged, dateNow) ==
    IF articlesChanged THEN TRUE
    ELSE IF ~Truthy(lastGen) THEN TRUE
    ELSE dateNow - lastGen >= intervalMs

shouldTriggerGeneration_InclusiveCooldown(lastGen, intervalMs, articlesChanged, dateNow) ==
    IF articlesChanged
    THEN IF Truthy(lastGen) /\ dateNow - lastGen <= COOLDOWN_MS THEN FALSE ELSE TRUE
    ELSE IF ~Truthy(lastGen) THEN TRUE
    ELSE dateNow - lastGen >= intervalMs

shouldTriggerGeneration_NoFirst(lastGen, intervalMs, articlesChanged, dateNow) ==
    IF articlesChanged
    THEN IF Truthy(lastGen) /\ dateNow - lastGen < COOLDOWN_MS THEN FALSE ELSE TRUE
    ELSE Truthy(lastGen) /\ dateNow - lastGen >= intervalMs

shouldTriggerGeneration(lastGen, intervalMs, articlesChanged, dateNow) ==
    IF articlesChanged
    THEN IF Truthy(lastGen) /\ dateNow - lastGen < COOLDOWN_MS THEN FALSE ELSE TRUE
    ELSE IF ~Truthy(lastGen) THEN TRUE
    ELSE dateNow - lastGen >= intervalMs

\* ---------------------------------------------------------- phantom synthesizer
\* Coordinates are integers in units of 0.0001 degree.  The result is a pair of
\* numerators over the common denominator den, so that the arithmetic of the
\* source is exact:  0.3 = 6000/20000,  0.0003 * (r + 0.5) = 3 * (2k + R) / (20000 R),
\* (r - 0.5) * 0.0001 degree = (2k - R) / (2R) units, (r - 0.5) * 0.001 degree =
\* 5 * (2k - R) / R units, with r = k / R.
SCALE == 20000
TOWARD_CENTROID == 6000       \* 0.3 * SCALE
PERP_BASE == 3                \* 0.0003 * 10000
DRIFT_SMALL == 10000          \* 0.0001 degree * SCALE / 2
DRIFT_EMPTY == 100000         \* 0.001 degree * SCALE / 2

RECURSIVE SumOf(_, _)
\* points.reduce((acc, point) => acc + point[field], 0)
SumOf(points, field) ==
    IF Len(points) = 0 THEN 0
    ELSE points[1][field] + SumOf(Tail(points), field)

\* A centroid that is the first point.
findCentroid_First(points) == [lat |-> points[1].lat * Len(points),
                               lon |-> points[1].lon * Len(points),
                               n |-> Len(points)]

\* findCentroid, times points.length
findCentroid(points) == [lat |-> SumOf(points, "lat"), lon |-> SumOf(points, "lon"),
                         n |-> Len(points)]

\* An empty-branch drift ten times as wide.
generatePhantomCoordinates_WideDrift(userPos, articles, k1, k2) ==
    LET den == SCALE * RandDen * (IF Len(articles) = 0 THEN 1 ELSE Len(articles))
        drift == 10 * DRIFT_EMPTY * (2 * k1 - RandDen)
    IN [lat |-> userPos.lat * den + drift,
        lon |-> userPos.lon * den + drift,
        den |-> den,
        driftNum |-> Abs(2 * k1 - RandDen), driftDen |-> 2 * RandDen]

\* userPos: [lat, lon]; articles: a sequence of [lat, lon]; k1, k2: the values
\* Math.random() returns, times RandDen (the empty branch draws k1 only).
generatePhantomCoordinates(userPos, articles, k1, k2) ==
    IF Len(articles) = 0
    THEN LET den == SCALE * RandDen
             drift == DRIFT_EMPTY * (2 * k1 - RandDen)
         IN [lat |-> userPos.lat * den + drift,
             lon |-> userPos.lon * den + drift,
             den |-> den,
             driftNum |-> Abs(2 * k1 - RandDen), driftDen |-> 2 * RandDen]
    ELSE LET c == findCentroid(articles)
             den == SCALE * RandDen * c.n
             deltaLat == c.lat - c.n * userPos.lat
             deltaLon == c.lon - c.n * userPos.lon
             midLat == userPos.lat * den + TOWARD_CENTROID * RandDen * deltaLat
             midLon == userPos.lon * den + TOWARD_CENTROID * RandDen * deltaLon
             perpScale == PERP_BASE * (2 * k1 + RandDen)
             phantomLat == midLat + deltaLon * perpScale
             phantomLon == midLon - deltaLat * perpScale
             drift == DRIFT_SMALL * c.n * (2 * k2 - RandDen)
         IN [lat |-> phantomLat + drift,
             lon |-> phantomLon + drift,
             den |-> den,
             driftNum |-> Abs(2 * k2 - RandDen), driftDen |-> 2 * RandDen]

\* articles.slice(0, 5).map((a) => a.title)
AnchorTitles(articles) ==
    [k \in 1..Len(Slice(articles, ANCHOR_CAP)) |-> Slice(articles, ANCHOR_CAP)[k].title]

\* A phantom that names every anchor.
createPhantomLocation_AllAnchors(userPos, articles, k1, k2) ==
    LET coords == generatePhantomCoordinates(userPos, articles, k1, k2)
    IN [lat |-> coords.lat, lon |-> coords.lon, den |-> coords.den,
        driftNum |-> coords.driftNum, driftDen |-> coords.driftDen,
        anchors |-> [k \in 1..Len(articles) |-> articles[k].title]]

\* articles: a sequence of [lat, lon, title].  dimensionalDrift is
\* driftNum / driftDen (Math.abs(drift) scaled to 0..0.5).
createPhantomLocation(userPos, articles, k1, k2) ==
    LET coords == generatePhantomCoordinates(userPos, articles, k1, k2)
    IN [lat |-> coords.lat, lon |-> coords.lon, den |-> coords.den,
        driftNum |-> coords.driftNum, driftDen |-> coords.driftDen,
        anchors |-> AnchorTitles(articles)]

\* The record generateTransmission builds from the phantom (the fields that
\* come from the phantom and the observer).
TransmissionRecord(userPos, phantom) ==
    [userCoordinates |-> [lat |-> userPos.lat, lon |-> userPos.lon],
     phantomCoordinates |-> [lat |-> phantom.lat, lon |-> phantom.lon, den |-> phantom.den],
     nearbyAnchors |-> phantom.anchors]

\* ------------------------------------------------------------ movement check
\* EARTH_RADIUS * toRadians(0.0001 degree), in centimetres: the length of one
\* coordinate unit.
CM_PER_UNIT == 1112

\* calculateDistance squared, in cm^2.  The coordinates are a few units from
\* (0, 0), where the haversine distance is EARTH_RADIUS times the Euclidean
\* angle (cos(lat) = 1 and sin(x) = x to a relative error below 1e-10).
calculateDistanceSq(p, q) ==
    CM_PER_UNIT * CM_PER_UNIT
        * ((q.lat - p.lat) * (q.lat - p.lat) + (q.lon - p.lon) * (q.lon - p.lon))

\* oldPos: Position | null; null is NoPosition.
NoPosition == [lat |-> Null, lon |-> Null]

\* A strict comparison with the threshold.
hasMovedSignificantly_Strict(oldPos, newPos, thresholdCm) ==
    IF oldPos = NoPosition THEN TRUE
    ELSE calculateDistanceSq(oldPos, newPos) > thresholdCm * thresholdCm

\* thresholdCm: the threshold in centimetres, not negative.
\* distance >= threshold, compared on the squares.
hasMovedSignificantly(oldPos, newPos, thresholdCm) ==
    IF oldPos = NoPosition THEN TRUE
    ELSE calculateDistanceSq(oldPos, newPos) >= thresholdCm * thresholdCm

\* ------------------------------------------------------------ position history
\* Array.prototype.slice(-n)
SliceLast(s, n) == SubSeq(s, Len(s) - Min(n, Len(s)) + 1, Len(s))

\* A history that keeps one position more before appending.
setPositionState_KeepsTwenty(state, p) ==
    [position |-> p,
     positionHistory |-> Append(SliceLast(state.positionHistory, HISTORY_TAIL + 1), p)]

\* The store's updater of setPosition: state is [position, positionHistory].
setPositionState(state, p) ==
    [position |-> p,
     positionHistory |-> Append(SliceLast(state.positionHistory, HISTORY_TAIL), p)]

\* -------------------------------------------------------- cleanTransmission
\* A text is a sequence of tokens: the two quote characters, a space, a
\* full stop, another letter, and the words "here" and "transmission" the
\* meta-phrase patterns look for.
Chars == {"dq", "sq", "sp", "dot", "x", "here", "transmission"}
MetaChars == {"sq", "sp", "here", "transmission"}
Terminal == {"dot", "bang", "qmark"}

SeqsUpTo(S, n) == UNION {[1..k -> S] : k \in 0..n}
Texts == SeqsUpTo(Chars, MaxText) \cup SeqsUpTo(MetaChars, MaxMeta)

At(s, i) == IF i >= 1 /\ i <= Len(s) THEN s[i] ELSE "end"
Opt(s, i, c) == IF At(s, i) = c THEN i + 1 ELSE i

RECURSIVE SkipSpaces(_, _)
SkipSpaces(s, i) == IF At(s, i) = "sp" THEN SkipSpaces(s, i + 1) ELSE i

RECURSIVE DropTrailingSpaces(_)
DropTrailingSpaces(s) ==
    IF s # <<>> /\ s[Len(s)] = "sp" THEN DropTrailingSpaces(SubSeq(s, 1, Len(s) - 1)) ELSE s

\* String.prototype.trim
Trim(s) == LET t == DropTrailingSpaces(s) IN SubSeq(t, SkipSpaces(t, 1), Len(t))

startsWith(s, c) == At(s, 1) = c
endsWith(s, c) == At(s, Len(s)) = c

\* cleaned.slice(1, -1)
SliceEnds(s) == SubSeq(s, 2, Len(s) - 1)

StripQuotes_Never(s) == s

StripQuotes(s) ==
    IF \/ startsWith(s, "dq") /\ endsWith(s, "dq")
       \/ startsWith(s, "sq") /\ endsWith(s, "sq")
    THEN SliceEnds(s)
    ELSE s

\* /^(here'?s?|this is|my) (a |the )?transmission:?\s*/i : the index after
\* the match, 0 when the pattern does not match at the start.
MatchMetaLead(s) ==
    LET h == IF At(s, 1) = "here" THEN Opt(s, Opt(s, 2, "sq"), "s")
             ELSE IF At(s, 1) \in {"this is", "my"} THEN 2
             ELSE 0
        a == IF h # 0 /\ At(s, h) = "sp"
             THEN IF At(s, h + 1) \in {"a", "the"} /\ At(s, h + 2) = "sp"
                  THEN h + 3
                  ELSE h + 1
             ELSE 0
    IN IF a # 0 /\ At(s, a) = "transmission"
       THEN SkipSpaces(s, Opt(s, a + 1, "colon"))
       ELSE 0

\* /^transmission:?\s*/i
MatchMetaWord(s) ==
    IF At(s, 1) = "transmission" THEN SkipSpaces(s, Opt(s, 2, "colon")) ELSE 0

\* cleaned.replace(pattern, '') for a pattern anchored at the start.
RemoveLead(s, end) == IF end = 0 THEN s ELSE SubSeq(s, end, Len(s))

RemoveMeta(s) ==
    LET first == RemoveLead(s, MatchMetaLead(s))
    IN RemoveLead(first, MatchMetaWord(first))

\* /[.!?"]$/
EndsAcceptably(s) == At(s, Len(s)) \in Terminal \cup {"dq"}

Punctuate(s) == IF ~EndsAcceptably(s) THEN s \o <<"dot">> ELSE s

cleanTransmission(text) == Punctuate(RemoveMeta(StripQuotes(Trim(text))))

\* ------------------------------------------------------------------- state
VARIABLES
    view,                 \* store.currentView
    position,             \* store.position (Null before the first fix)
    nearbyArticles,       \* store.nearbyArticles, a sequence of pageids
    llmReady,             \* store.llmState.isReady
    isGenerating,         \* store.isGenerating
    lastGeneratedAt,      \* store.lastGeneratedAt
    currentTransmission,  \* store.currentTransmission (an id)
    currentPhantom,       \* store.currentPhantom (the id of its transmission)
    recentTransmissions,  \* store.recentTransmissions (ids, newest first)
    autoPlay,             \* store.settings.autoPlay
    transmissionInterval, \* store.settings.transmissionInterval (seconds)
    audioPlaying,         \* store.audioState.isPlaying
    now,                  \* Date.now()
    transmissions,        \* db.transmissions (the ids stored)
    prevArticles,         \* previousArticlesRef.current of each hook instance
    genTimer,             \* generationTimeoutRef: due time of the pending timer
    calls,                \* the activations of generate()
    genCount,             \* generate() calls started so far
    replayCount,          \* replay() calls that spoke so far
    currentUtterance,     \* audioEngine.currentUtterance
    utts,                 \* the SpeechSynthesisUtterances created so far
    evalLog,              \* articlesChanged computed by each effect in the last task
    genLog,               \* what the last generate() call did
    input,                \* the arguments of the pure function under check
    output                \* <<its result>>, once applied

storeVars == <<view, position, nearbyArticles, llmReady, isGenerating, lastGeneratedAt,
               currentTransmission, currentPhantom, recentTransmissions, autoPlay,
               transmissionInterval, audioPlaying>>
hookVars == <<prevArticles, genTimer, calls, genCount, replayCount, evalLog, genLog>>
speechVars == <<currentUtterance, utts>>
pureVars == <<input, output>>
vars == <<storeVars, now, transmissions, hookVars, speechVars, pureVars>>

\* The two components that call useTransmissions(): App, always mounted, and
\* TransmissionLog, mounted while the history panel is shown.
Inst == {"App", "Log"}
Mounted(i) == i = "App" \/ view = "history"

Slots == 1..MaxCalls
MaxUtt == MaxGen + MaxReplay
Utts == 1..MaxUtt

Positions == {1}
ArticleLists == {<<>>, <<1, 2, 3>>, <<1, 5, 6>>}
Intervals == {MIN_INTERVAL_S, DEFAULT_INTERVAL_S}

IdleCall == [pc |-> "idle", trigger |-> "none", speakAfter |-> FALSE, utt |-> 0,
             steps |-> <<>>]
NoUtt == [used |-> FALSE, owner |-> 0, timer |-> FALSE, synth |-> "none", settled |-> FALSE]
NoEval == [i \in Inst |-> "none"]

\* The state when the drift view first shows: the store, the hooks and the
\* audio engine as constructed, onboarding completed.
OrchIdle ==
    /\ view = "drift" /\ position = Null /\ nearbyArticles = <<>>
    /\ llmReady = FALSE /\ isGenerating = FALSE /\ lastGeneratedAt = Null
    /\ currentTransmission = Null /\ currentPhantom = Null
    /\ recentTransmissions = <<>> /\ autoPlay = TRUE
    /\ transmissionInterval = DEFAULT_INTERVAL_S /\ audioPlaying = FALSE
    /\ now = StartMs /\ transmissions = {}
    /\ prevArticles = [i \in Inst |-> <<>>] /\ genTimer = [i \in Inst |-> Null]
    /\ calls = [c \in Slots |-> IdleCall] /\ genCount = 0 /\ replayCount = 0
    /\ currentUtterance = Null /\ utts = [u \in Utts |-> NoUtt]
    /\ evalLog = NoEval /\ genLog = "none"

Init ==
    /\ OrchIdle
    /\ input = "none"
    /\ output = <<>>

\* ------------------------------------------------- the auto-generate effect

\* The dependency list of the effect; generate's own dependencies are among them.
\* A dependency array that leaves settings.autoPlay out.
Deps_NoAutoPlay == <<position, nearbyArticles, llmReady, isGenerating, lastGeneratedAt,
                     transmissionInterval, audioPlaying>>

Deps == <<position, nearbyArticles, llmReady, isGenerating, lastGeneratedAt,
          transmissionInterval, autoPlay, audioPlaying>>

\* if (!position || !llmState.isReady || isGenerating) return;
EffectGuard == position' # Null /\ llmReady' /\ ~isGenerating'

\* previousArticlesRef.current as the effect of instance i reads it
PrevRef(i) == IF Mounted(i) THEN prevArticles[i] ELSE <<>>

EffectChanged(i) == haveArticlesChanged(PrevRef(i), nearbyArticles')

EffectShould(i) ==
    shouldTriggerGeneration(lastGeneratedAt', transmissionInterval' * 1000,
                            EffectChanged(i), now')

\* The effect of instance i is cleaned up and run again in this task: the
\* instance mounts, or a dependency changed (fresh: a new object with possibly
\* the same contents was stored).
Reruns(i, fresh) == Mounted(i)' /\ (~Mounted(i) \/ fresh \/ Deps' # Deps)

\* Re-render after the store was written in this task.  fired: the instances
\* whose timer callback is the task.
ReRender(fresh, fired) ==
    /\ prevArticles' = [i \in Inst |->
          IF ~Mounted(i)' THEN <<>>
          ELSE IF Reruns(i, fresh) /\ EffectGuard THEN nearbyArticles'
          ELSE PrevRef(i)]
    /\ genTimer' = [i \in Inst |->
          IF ~Mounted(i)' THEN Null
          ELSE IF Reruns(i, fresh)
               THEN IF EffectGuard /\ EffectShould(i) /\ autoPlay'
                    THEN now' + TRIGGER_DELAY_MS
                    ELSE Null
          ELSE IF i \in fired THEN Null
          ELSE genTimer[i]]
    /\ evalLog' = [i \in Inst |->
          IF Reruns(i, fresh) /\ EffectGuard
          THEN IF EffectChanged(i) THEN "changed" ELSE "same"
          ELSE "none"]

NoRender == /\ UNCHANGED <<prevArticles, genTimer>>
            /\ evalLog' = NoEval

\* ------------------------------------------------------ speech (audioEngine)

\* speechSynthesis.cancel(): every utterance in the synthesizer's queue is
\* removed, and an error event for it is dispatched in a later task.
cancel(U) == [u \in Utts |-> IF U[u].synth = "queued" THEN [U[u] EXCEPT !.synth = "event"]
                             ELSE U[u]]

NextUtt == Cardinality({u \in Utts : utts[u].used}) + 1

\* speakTransmission(text, profile), awaited by owner (a slot of calls, 0: replay)
speakTransmission(owner) ==
    /\ utts' = [(IF currentUtterance # Null THEN cancel(utts) ELSE utts) EXCEPT
                  ![NextUtt] = [used |-> TRUE, owner |-> owner, timer |-> TRUE,
                                synth |-> "none", settled |-> FALSE]]
    /\ currentUtterance' = NextUtt

stopSpeaking ==
    IF currentUtterance # Null
    THEN /\ utts' = cancel(utts)
         /\ currentUtterance' = Null
    ELSE UNCHANGED speechVars

\* ------------------------------------------------------------- generate()

\* What generateTransmission calls up to its first await, in order; calls[c].steps
\* records them.
StepsToText == <<"selectRandomStyle", "createPhantomLocation", "constructPrompt", "generateText">>

\* A continuation that asks for the text a second time.
StepsToSave_Retries == <<"generateText", "cleanTransmission", "saveTransmission">>

\* What it calls once generateText has resolved, up to its second await.
StepsToSave == <<"cleanTransmission", "saveTransmission">>

CanGenerate_NoBusyCheck == position # Null /\ llmReady

\* if (!position || !llmState.isReady || isGenerating) return null;
CanGenerate == position # Null /\ llmReady /\ ~isGenerating

FreeSlot == CHOOSE c \in Slots : calls[c].pc = "idle" /\ \A d \in Slots : calls[d].pc = "idle" => c <= d

\* generate() up to its first await: generateTransmission has selected the
\* style, built the phantom and the prompt and called generateText.
generate(trig, fired) ==
    /\ genCount < MaxGen
    /\ \E c \in Slots : calls[c].pc = "idle"
    /\ IF CanGenerate
       THEN /\ isGenerating' = TRUE
            /\ calls' = [calls EXCEPT ![FreeSlot] =
                           [pc |-> "awaitText", trigger |-> trig,
                            speakAfter |-> audioPlaying /\ autoPlay, utt |-> 0,
                            steps |-> StepsToText]]
            /\ genCount' = genCount + 1
            /\ genLog' = "started"
       ELSE /\ UNCHANGED <<isGenerating, calls, genCount>>
            /\ genLog' = "refused"
    /\ UNCHANGED <<view, position, nearbyArticles, llmReady, lastGeneratedAt,
                   currentTransmission, currentPhantom, recentTransmissions, autoPlay,
                   transmissionInterval, audioPlaying, now, transmissions,
                   replayCount, speechVars>>
    /\ ReRender(FALSE, fired)
    /\ UNCHANGED pureVars

\* The manual generate button, or any other caller of the hook's generate.
ManualGenerate ==
    /\ view = "drift"
    /\ generate("manual", {})

\* The callback of the 1 s timer set by the effect of instance i.
TimerFire(i) ==
    /\ Mounted(i)
    /\ genTimer[i] # Null
    /\ now >= genTimer[i]
    /\ generate("timer", {i})

\* finally { setIsGenerating(false) }
Finally(c) ==
    /\ isGenerating' = FALSE
    /\ calls' = [calls EXCEPT ![c] = IdleCall]

\* generateText resolved: the text is cleaned, the record built and
\* saveTransmission called.
TextResolve(c) ==
    /\ calls[c].pc = "awaitText"
    /\ calls' = [calls EXCEPT ![c].pc = "awaitSave",
                              ![c].steps = calls[c].steps \o StepsToSave]
    /\ genLog' = "none"
    /\ NoRender
    /\ UNCHANGED pureVars
    /\ UNCHANGED <<storeVars, now, transmissions, genCount, replayCount, speechVars>>

\* A catch block that stamps lastGeneratedAt on every failure.
TextReject_StampsTime(c) ==
    /\ calls[c].pc = "awaitText"
    /\ Finally(c)
    /\ genLog' = "textFailed"
    /\ lastGeneratedAt' = now
    /\ UNCHANGED <<view, position, nearbyArticles, llmReady,
                   currentTransmission, currentPhantom, recentTransmissions, autoPlay,
                   transmissionInterval, audioPlaying, now, transmissions, genCount,
                   replayCount, speechVars>>
    /\ ReRender(FALSE, {})
    /\ UNCHANGED pureVars

\* generateText rejected: generateTransmission rejects, generate catches.
TextReject(c) ==
    /\ calls[c].pc = "awaitText"
    /\ Finally(c)
    /\ genLog' = "textFailed"
    /\ UNCHANGED <<view, position, nearbyArticles, llmReady, lastGeneratedAt,
                   currentTransmission, currentPhantom, recentTransmissions, autoPlay,
                   transmissionInterval, audioPlaying, now, transmissions, genCount,
                   replayCount, speechVars>>
    /\ ReRender(FALSE, {})
    /\ UNCHANGED pureVars

\* recentTransmissions: [transmission, ...state.recentTransmissions].slice(0, 50)
addTransmission(id) == Slice(<<id>> \o recentTransmissions, HISTORY_CAP)

\* saveTransmission resolved with the new id; generate stores the result and
\* speaks it when audio was playing and auto-play was on.
SaveResolve(c) ==
    /\ calls[c].pc = "awaitSave"
    /\ LET id == Cardinality(transmissions) + 1 IN
       /\ transmissions' = transmissions \cup {id}
       /\ currentPhantom' = id
       /\ currentTransmission' = id
       /\ lastGeneratedAt' = now
       /\ recentTransmissions' = addTransmission(id)
    /\ IF calls[c].speakAfter
       THEN /\ speakTransmission(c)
            /\ calls' = [calls EXCEPT ![c].pc = "awaitSpeak", ![c].utt = NextUtt]
            /\ UNCHANGED isGenerating
       ELSE /\ Finally(c)
            /\ UNCHANGED speechVars
    /\ genLog' = "none"
    /\ UNCHANGED <<view, position, nearbyArticles, llmReady, autoPlay,
                   transmissionInterval, audioPlaying, now, genCount, replayCount>>
    /\ ReRender(FALSE, {})
    /\ UNCHANGED pureVars

\* saveTransmission rejected: generateTransmission rejects, generate catches.
SaveReject(c) ==
    /\ calls[c].pc = "awaitSave"
    /\ Finally(c)
    /\ genLog' = "saveFailed"
    /\ UNCHANGED <<view, position, nearbyArticles, llmReady, lastGeneratedAt,
                   currentTransmission, currentPhantom, recentTransmissions, autoPlay,
                   transmissionInterval, audioPlaying, now, transmissions, genCount,
                   replayCount, speechVars>>
    /\ ReRender(FALSE, {})
    /\ UNCHANGED pureVars

\* ------------------------------------------------- speech events and timers

\* The promise of utterance u settles.  When a generate() awaits it, generate
\* ends (return or catch, then finally).
Settle(u) ==
    /\ utts' = [utts EXCEPT ![u].synth = "none", ![u].settled = TRUE]
    /\ currentUtterance' = Null
    /\ IF utts[u].owner # 0 /\ calls[utts[u].owner].pc = "awaitSpeak"
       THEN Finally(utts[u].owner)
       ELSE UNCHANGED <<isGenerating, calls>>
    /\ genLog' = "none"
    /\ UNCHANGED <<view, position, nearbyArticles, llmReady, lastGeneratedAt,
                   currentTransmission, currentPhantom, recentTransmissions, autoPlay,
                   transmissionInterval, audioPlaying, now, transmissions, genCount,
                   replayCount>>
    /\ ReRender(FALSE, {})
    /\ UNCHANGED pureVars

\* setTimeout(() => speechSynthesis.speak(currentUtterance!), 300) of utterance
\* u: it speaks whatever currentUtterance holds now, and throws when that is
\* null, leaving u's promise pending.
SpeakTimerFire(u) ==
    /\ utts[u].timer
    /\ utts' = [v \in Utts |->
          [utts[v] EXCEPT
             !.timer = IF v = u THEN FALSE ELSE @,
             !.synth = IF v = currentUtterance /\ @ = "none" /\ ~utts[v].settled
                       THEN "queued" ELSE @]]
    /\ genLog' = "none"
    /\ NoRender
    /\ UNCHANGED pureVars
    /\ UNCHANGED <<storeVars, now, transmissions, calls, genCount, replayCount,
                   currentUtterance>>

\* utterance.onend
UtteranceEnd(u) ==
    /\ utts[u].synth = "queued"
    /\ Settle(u)

\* utterance.onerror, after a cancel()
UtteranceError(u) ==
    /\ utts[u].synth = "event"
    /\ Settle(u)

\* --------------------------------------------------- the other store writers

setPosition(p) ==
    /\ position' = p
    /\ genLog' = "none"
    /\ UNCHANGED <<view, nearbyArticles, llmReady, isGenerating, lastGeneratedAt,
                   currentTransmission, currentPhantom, recentTransmissions, autoPlay,
                   transmissionInterval, audioPlaying, now, transmissions, calls,
                   genCount, replayCount, speechVars>>
    /\ ReRender(TRUE, {})
    /\ UNCHANGED pureVars

setNearbyArticles(a) ==
    /\ nearbyArticles' = a
    /\ genLog' = "none"
    /\ UNCHANGED <<view, position, llmReady, isGenerating, lastGeneratedAt,
                   currentTransmission, currentPhantom, recentTransmissions, autoPlay,
                   transmissionInterval, audioPlaying, now, transmissions, calls,
                   genCount, replayCount, speechVars>>
    /\ ReRender(TRUE, {})
    /\ UNCHANGED pureVars

\* setLLMState({ isReady: true }) at the end of a successful model load
LLMReady ==
    /\ ~llmReady
    /\ llmReady' = TRUE
    /\ genLog' = "none"
    /\ UNCHANGED <<view, position, nearbyArticles, isGenerating, lastGeneratedAt,
                   currentTransmission, currentPhantom, recentTransmissions, autoPlay,
                   transmissionInterval, audioPlaying, now, transmissions, calls,
                   genCount, replayCount, speechVars>>
    /\ ReRender(FALSE, {})
    /\ UNCHANGED pureVars

\* Settings panel: handleSettingChange('autoPlay', b)
SetAutoPlay(b) ==
    /\ view = "settings"
    /\ b # autoPlay
    /\ autoPlay' = b
    /\ genLog' = "none"
    /\ UNCHANGED <<view, position, nearbyArticles, llmReady, isGenerating,
                   lastGeneratedAt, currentTransmission, currentPhantom,
                   recentTransmissions, transmissionInterval, audioPlaying, now,
                   transmissions, calls, genCount, replayCount, speechVars>>
    /\ ReRender(FALSE, {})
    /\ UNCHANGED pureVars

\* Settings panel: handleSettingChange('transmissionInterval', s)
SetInterval(s) ==
    /\ view = "settings"
    /\ s # transmissionInterval
    /\ transmissionInterval' = s
    /\ genLog' = "none"
    /\ UNCHANGED <<view, position, nearbyArticles, llmReady, isGenerating,
                   lastGeneratedAt, currentTransmission, currentPhantom,
                   recentTransmissions, autoPlay, audioPlaying, now,
                   transmissions, calls, genCount, replayCount, speechVars>>
    /\ ReRender(FALSE, {})
    /\ UNCHANGED pureVars

\* setView: the panels open from the drift view and close back to it.  Closing
\* the history panel unmounts TransmissionLog: its effect cleanup clears its
\* timer and its useAudio cleanup calls disposeAudio, which stops speech.
setView(v) ==
    /\ \/ view = "drift" /\ v \in {"history", "settings"}
       \/ view \in {"history", "settings"} /\ v = "drift"
    /\ view' = v
    /\ IF view = "history" THEN stopSpeaking ELSE UNCHANGED speechVars
    /\ genLog' = "none"
    /\ UNCHANGED <<position, nearbyArticles, llmReady, isGenerating, lastGeneratedAt,
                   currentTransmission, currentPhantom, recentTransmissions, autoPlay,
                   transmissionInterval, audioPlaying, now, transmissions, calls,
                   genCount, replayCount>>
    /\ ReRender(FALSE, {})
    /\ UNCHANGED pureVars

\* useAudio.toggle: stop() when the store says audio is playing, else start()
toggle ==
    /\ view = "drift"
    /\ IF audioPlaying
       THEN /\ stopSpeaking
            /\ audioPlaying' = FALSE
       ELSE /\ UNCHANGED speechVars
            /\ audioPlaying' = TRUE
    /\ genLog' = "none"
    /\ UNCHANGED <<view, position, nearbyArticles, llmReady, isGenerating,
                   lastGeneratedAt, currentTransmission, currentPhantom,
                   recentTransmissions, autoPlay, transmissionInterval, now,
                   transmissions, calls, genCount, replayCount>>
    /\ ReRender(FALSE, {})
    /\ UNCHANGED pureVars

\* TransmissionLog: replay(t) of the current or a listed transmission
replay(t) ==
    /\ view = "history"
    /\ t = currentTransmission \/ \E k \in 1..Len(recentTransmissions) : recentTransmissions[k] = t
    /\ t # Null
    /\ currentTransmission' = t
    /\ IF audioPlaying
       THEN /\ replayCount < MaxReplay
            /\ replayCount' = replayCount + 1
            /\ speakTransmission(0)
       ELSE UNCHANGED <<replayCount, speechVars>>
    /\ genLog' = "none"
    /\ UNCHANGED <<view, position, nearbyArticles, llmReady, isGenerating,
                   lastGeneratedAt, currentPhantom, recentTransmissions, autoPlay,
                   transmissionInterval, audioPlaying, now, transmissions, calls,
                   genCount>>
    /\ ReRender(FALSE, {})
    /\ UNCHANGED pureVars

\* Time passes.
Tick(d) ==
    /\ now + d <= MaxNow
    /\ now' = now + d
    /\ genLog' = "none"
    /\ NoRender
    /\ UNCHANGED pureVars
    /\ UNCHANGED <<storeVars, transmissions, calls, genCount, replayCount, speechVars>>

\* The tasks every environment below can run.
Core ==
    \/ \E p \in Positions : setPosition(p)
    \/ LLMReady
    \/ \E v \in {"drift", "history", "settings"} : setView(v)
    \/ ManualGenerate
    \/ \E c \in Slots : TextResolve(c)
    \/ \E c \in Slots : TextReject(c)
    \/ \E c \in Slots : SaveResolve(c)
    \/ \E c \in Slots : SaveReject(c)

\* The orchestrator with the clock running and the audio left off.
TriggerNext ==
    \/ Core
    \/ \E a \in ArticleLists : setNearbyArticles(a)
    \/ \E b \in BOOLEAN : SetAutoPlay(b)
    \/ \E s \in Intervals : SetInterval(s)
    \/ \E i \in Inst : TimerFire(i)
    \/ \E d \in TickSteps : Tick(d)

SpecTrigger == Init /\ [][TriggerNext]_vars

\* The same tasks under the scheduling the runtime guarantees: the clock
\* advances, a due timer fires, and an awaited generateText or saveTransmission
\* settles.  Updates from the environment (positions, anchors, settings, views,
\* button presses) may or may not come.
TriggerFairness ==
    /\ WF_vars(\E d \in TickSteps : Tick(d))
    /\ \A i \in Inst : WF_vars(TimerFire(i))
    /\ WF_vars(\E c \in Slots : TextResolve(c) \/ TextReject(c))
    /\ WF_vars(\E c \in Slots : SaveResolve(c) \/ SaveReject(c))

SpecTriggerLive == Init /\ [][TriggerNext]_vars /\ TriggerFairness

\* The orchestrator with the audio in use, within one instant of the clock.
SpeechNext ==
    \/ Core
    \/ toggle
    \/ \E t \in 1..MaxGen : replay(t)
    \/ \E u \in Utts : SpeakTimerFire(u)
    \/ \E u \in Utts : UtteranceEnd(u)
    \/ \E u \in Utts : UtteranceError(u)

SpecSpeech == Init /\ [][SpeechNext]_vars

\* ------------------------------------------- the pure functions, applied once

orchVars == <<storeVars, now, transmissions, hookVars, speechVars>>

\* Anchor lists as the Wikipedia geosearch returns them: pageids, no duplicates.
AnchorLists ==
    {s \in UNION {[1..n -> 1..MaxId] : n \in 0..MaxLen} :
        \A j, k \in DOMAIN s : j # k => s[j] # s[k]}

PolicyLast == {Null, 1000, 11000}
PolicyNow == {1000, 10999, 11000, 11001, 20999, 21000, 31000, 41000, 71000}
PolicyIntervals == {0, 5000, 30000, 60000}

PolicyInit ==
    /\ OrchIdle
    /\ input \in [lastGeneratedAt : PolicyLast, intervalMs : PolicyIntervals,
                  articlesChanged : BOOLEAN, dateNow : PolicyNow]
    /\ output = <<>>

ApplyShouldTrigger ==
    /\ output = <<>>
    /\ output' = <<shouldTriggerGeneration(input.lastGeneratedAt, input.intervalMs,
                                         input.articlesChanged, input.dateNow)>>
    /\ UNCHANGED <<input, orchVars>>

SpecPolicy == PolicyInit /\ [][ApplyShouldTrigger]_vars

ChangedInit ==
    /\ OrchIdle
    /\ input \in [oldArticles : AnchorLists, newArticles : AnchorLists]
    /\ output = <<>>

ApplyHaveArticlesChanged ==
    /\ output = <<>>
    /\ output' = <<haveArticlesChanged(input.oldArticles, input.newArticles)>>
    /\ UNCHANGED <<input, orchVars>>

SpecChanged == ChangedInit /\ [][ApplyHaveArticlesChanged]_vars

Coords == 0..MaxCoord
Points == [lat : Coords, lon : Coords]
PointLists == UNION {[1..n -> Points] : n \in 0..MaxAnchors}
Randoms == 0..(RandDen - 1)

PhantomInit ==
    /\ OrchIdle
    /\ input \in [userPos : Points, articles : PointLists, k1 : Randoms, k2 : Randoms]
    /\ output = <<>>

ApplyGeneratePhantom ==
    /\ output = <<>>
    /\ output' = <<generatePhantomCoordinates(input.userPos, input.articles,
                                            input.k1, input.k2)>>
    /\ UNCHANGED <<input, orchVars>>

SpecPhantom == PhantomInit /\ [][ApplyGeneratePhantom]_vars

\* createPhantomLocation and the record built from it, on titled anchors.
TitledAnchor(t) == [lat |-> 0, lon |-> MaxCoord, title |-> t]
TitledLists ==
    UNION {[1..n -> {TitledAnchor(t) : t \in 1..MaxTitle}] : n \in 0..(ANCHOR_CAP + 1)}

CreateInit ==
    /\ OrchIdle
    /\ input \in [userPos : Points, articles : TitledLists, k1 : Randoms, k2 : {0}]
    /\ output = <<>>

ApplyCreatePhantom ==
    /\ output = <<>>
    /\ LET phantom == createPhantomLocation(input.userPos, input.articles, input.k1, input.k2)
       IN output' = <<[phantom |-> phantom,
                       transmission |-> TransmissionRecord(input.userPos, phantom)]>>
    /\ UNCHANGED <<input, orchVars>>

SpecCreate == CreateInit /\ [][ApplyCreatePhantom]_vars

\* hasMovedSignificantly on the positions of the grid and on no previous position.
Thresholds == {0, 500, CM_PER_UNIT, CM_PER_UNIT + 1, 5000}

MovedInit ==
    /\ OrchIdle
    /\ input \in [oldPos : Points \cup {NoPosition}, newPos : Points, threshold : Thresholds]
    /\ output = <<>>

ApplyHasMoved ==
    /\ output = <<>>
    /\ output' = <<hasMovedSignificantly(input.oldPos, input.newPos, input.threshold)>>
    /\ UNCHANGED <<input, orchVars>>

SpecMoved == MovedInit /\ [][ApplyHasMoved]_vars

\* The position part of the store under a stream of fixes; input is the
\* stream so far, output the store's position and positionHistory.
Places == {1, 2}

HistoryInit ==
    /\ OrchIdle
    /\ input = <<>>
    /\ output = <<[position |-> Null, positionHistory |-> <<>>]>>

ApplySetPosition(p) ==
    /\ Len(input) < MaxArrivals
    /\ p = 2 => Cardinality({k \in 1..Len(input) : input[k] = 2}) < MaxOther
    /\ input' = Append(input, p)
    /\ output' = <<setPositionState(output[1], p)>>
    /\ UNCHANGED orchVars

SpecHistory == HistoryInit /\ [][\E p \in Places : ApplySetPosition(p)]_vars

\* ------------------------------------------------------------ settings table
\* db.settings under getSettings and updateSettings calls.  Each Dexie
\* operation is one IndexedDB transaction; transactions on the table run in the
\* order they were requested, and the continuation of an await runs in the
\* task that delivers its result, where it requests the call's next
\* transaction.  Here input is [calls, queue]: the calls and the queue of the
\* calls whose transaction is pending; output is <<the ids of the records>>.
DbCalls == 1..MaxDbCalls
settingsTable == output[1]
dbCall(c) == input.calls[c]
IdleDbCall == [op |-> "none", pc |-> "idle", current |-> Null]

SettingsInit ==
    /\ OrchIdle
    /\ input = [calls |-> [c \in DbCalls |-> IdleDbCall], queue |-> <<>>]
    /\ output = <<{}>>

\* A call starts: db.settings.toCollection().first() is requested.  Calls
\* take the slots in order.
CanStartDbCall(c) ==
    /\ dbCall(c).pc = "idle"
    /\ \A d \in DbCalls : d < c => dbCall(d).pc # "idle"

StartedDbCall(c, op) ==
    [calls |-> [input.calls EXCEPT ![c] = [op |-> op, pc |-> "first", current |-> Null]],
     queue |-> Append(input.queue, c)]

\* App's loadSettings effect: getSettings()
StartGetSettings(c) ==
    /\ CanStartDbCall(c)
    /\ input' = StartedDbCall(c, "getSettings")
    /\ UNCHANGED <<output, orchVars>>

\* Settings.handleSettingChange: updateSettings(), which calls getSettings()
StartUpdateSettings(c) ==
    /\ CanStartDbCall(c)
    /\ input' = StartedDbCall(c, "updateSettings")
    /\ UNCHANGED <<output, orchVars>>

\* What a call does once it holds the settings record: getSettings returns,
\* updateSettings requests db.settings.update(current.id, updates).
AfterGetSettings(c, id, rest) ==
    IF dbCall(c).op = "getSettings"
    THEN [calls |-> [input.calls EXCEPT ![c].pc = "done", ![c].current = id],
          queue |-> rest]
    ELSE [calls |-> [input.calls EXCEPT ![c].pc = "update", ![c].current = id],
          queue |-> Append(rest, c)]

\* first() delivers: the first record, or undefined and add(DEFAULT_SETTINGS)
\* is requested.
FirstDelivers ==
    /\ input.queue # <<>>
    /\ LET c == Head(input.queue)
           rest == Tail(input.queue)
       IN /\ dbCall(c).pc = "first"
          /\ IF settingsTable # {}
             THEN input' = AfterGetSettings(c, CHOOSE i \in settingsTable :
                                                   \A j \in settingsTable : i <= j, rest)
             ELSE input' = [calls |-> [input.calls EXCEPT ![c].pc = "add"],
                            queue |-> Append(rest, c)]
    /\ UNCHANGED <<output, orchVars>>

\* add() delivers the auto-incremented id of the new record.
AddDelivers ==
    /\ input.queue # <<>>
    /\ LET c == Head(input.queue)
           id == Cardinality(settingsTable) + 1
       IN /\ dbCall(c).pc = "add"
          /\ output' = <<settingsTable \cup {id}>>
          /\ input' = AfterGetSettings(c, id, Tail(input.queue))
    /\ UNCHANGED orchVars

\* update() delivers; it changes fields of a record, not the set of records.
UpdateDelivers ==
    /\ input.queue # <<>>
    /\ LET c == Head(input.queue)
       IN /\ dbCall(c).pc = "update"
          /\ input' = [calls |-> [input.calls EXCEPT ![c].pc = "done"],
                       queue |-> Tail(input.queue)]
    /\ UNCHANGED <<output, orchVars>>

SettingsNext ==
    \/ \E c \in DbCalls : StartGetSettings(c)
    \/ \E c \in DbCalls : StartUpdateSettings(c)
    \/ FirstDelivers
    \/ AddDelivers
    \/ UpdateDelivers

SpecSettings == SettingsInit /\ [][SettingsNext]_vars

\* ------------------------------------------------------------- article cache
\* fetchNearbyArticles over db.wikiCache, one call at a time.  Here input is
\* [now, ticks, fetches, call, stored] and output is <<db.wikiCache>>: a
\* function from tile ids to an entry [articles, fetchedAt] or NoEntry.
\* stored[t] remembers the articles last cached for tile t, call.lookupAt the
\* Date.now() the initial lookup read.
Tiles == {1, 2}
WikiResults == {<<1, 2, 3>>, <<1, 5, 6>>}
AgeSteps == {1, MAX_AGE_MS}
NoEntry == [articles |-> <<>>, fetchedAt |-> Null]
NoFetch == [pc |-> "idle", tile |-> 0, requests |-> 0, failed |-> FALSE,
            lookupAt |-> Null, pending |-> NoEntry, result |-> <<>>]
wikiCache == output[1]
fetchCall == input.call

\* An entry one millisecond short of 24 hours counts as expired.
Expired_AtLimit(entry, maxAgeMs, dateNow) == dateNow - entry.fetchedAt >= maxAgeMs

\* Date.now() - cached.fetchedAt > maxAgeMs; maxAgeMs = Null stands for Infinity
Expired(entry, maxAgeMs, dateNow) ==
    maxAgeMs # Null /\ dateNow - entry.fetchedAt > maxAgeMs

\* getCachedArticles: the cache after the call (an expired entry is deleted)
CacheAfterGet(tileId, maxAgeMs, dateNow) ==
    IF wikiCache[tileId] # NoEntry /\ Expired(wikiCache[tileId], maxAgeMs, dateNow)
    THEN [wikiCache EXCEPT ![tileId] = NoEntry]
    ELSE wikiCache

\* getCachedArticles: its result, NoEntry for null
getCachedArticles(tileId, maxAgeMs, dateNow) == CacheAfterGet(tileId, maxAgeMs, dateNow)[tileId]

WikiInit ==
    /\ OrchIdle
    /\ input = [now |-> StartMs, ticks |-> 0, fetches |-> 0, call |-> NoFetch,
                stored |-> [t \in Tiles |-> NoEntry]]
    /\ output = <<[t \in Tiles |-> NoEntry]>>

WikiTick(d) ==
    /\ input.ticks < MaxTicks
    /\ input' = [input EXCEPT !.now = input.now + d, !.ticks = input.ticks + 1]
    /\ UNCHANGED <<output, orchVars>>

\* fetchNearbyArticles is called: getCachedArticles(tileId) is awaited.
StartFetch(t) ==
    /\ fetchCall.pc \in {"idle", "done"}
    /\ input.fetches < MaxFetch
    /\ input' = [input EXCEPT !.fetches = input.fetches + 1,
                              !.call = [NoFetch EXCEPT !.pc = "lookup", !.tile = t]]
    /\ UNCHANGED <<output, orchVars>>

\* The lookup delivers: a fresh entry is returned, else the request is sent.
LookupDelivers ==
    /\ fetchCall.pc = "lookup"
    /\ LET cached == getCachedArticles(fetchCall.tile, MAX_AGE_MS, input.now)
       IN /\ output' = <<CacheAfterGet(fetchCall.tile, MAX_AGE_MS, input.now)>>
          /\ IF cached # NoEntry
             THEN input' = [input EXCEPT !.call.pc = "done",
                                         !.call.lookupAt = input.now,
                                         !.call.result = cached.articles]
             ELSE input' = [input EXCEPT !.call.pc = "request",
                                         !.call.lookupAt = input.now,
                                         !.call.requests = fetchCall.requests + 1]
    /\ UNCHANGED orchVars

\* The response is ok and parsed: cacheArticles(tileId, articles) is awaited.
FetchOk(articles) ==
    /\ fetchCall.pc = "request"
    /\ input' = [input EXCEPT !.call.pc = "caching",
                              !.call.pending = [articles |-> articles, fetchedAt |-> input.now]]
    /\ UNCHANGED <<output, orchVars>>

\* db.wikiCache.put delivers; the articles are returned.
PutDelivers ==
    /\ fetchCall.pc = "caching"
    /\ output' = <<[wikiCache EXCEPT ![fetchCall.tile] = fetchCall.pending]>>
    /\ input' = [input EXCEPT !.call.pc = "done",
                              !.call.result = fetchCall.pending.articles,
                              !.stored[fetchCall.tile] = fetchCall.pending]
    /\ UNCHANGED orchVars

\* fetch rejects or the status is not ok: the catch block awaits
\* getCachedArticles(tileId, Infinity).
FetchFail ==
    /\ fetchCall.pc = "request"
    /\ input' = [input EXCEPT !.call.pc = "fallback", !.call.failed = TRUE]
    /\ UNCHANGED <<output, orchVars>>

\* The fallback lookup delivers: the entry's articles, or [].
FallbackDelivers ==
    /\ fetchCall.pc = "fallback"
    /\ LET fallback == getCachedArticles(fetchCall.tile, Null, input.now)
       IN /\ output' = <<CacheAfterGet(fetchCall.tile, Null, input.now)>>
          /\ input' = [input EXCEPT !.call.pc = "done",
                                    !.call.result = IF fallback # NoEntry
                                                    THEN fallback.articles ELSE <<>>]
    /\ UNCHANGED orchVars

WikiNext ==
    \/ \E d \in AgeSteps : WikiTick(d)
    \/ \E t \in Tiles : StartFetch(t)
    \/ LookupDelivers
    \/ \E a \in WikiResults : FetchOk(a)
    \/ PutDelivers
    \/ FetchFail
    \/ FallbackDelivers

SpecWiki == WikiInit /\ [][WikiNext]_vars

\* -------------------------------------------------------- cleanTransmission
CleanInit ==
    /\ OrchIdle
    /\ input \in Texts
    /\ output = <<>>

ApplyClean ==
    /\ output = <<>>
    /\ output' = <<cleanTransmission(input)>>
    /\ UNCHANGED <<input, orchVars>>

SpecClean == CleanInit /\ [][ApplyClean]_vars

\* -------------------------------------------------------------- useWikipedia
\* The hook's refs, the position and the setting it reads, the
\* fetchNearbyArticles calls in flight and the tile cache are the fields of
\* input; the store's nearbyArticles is output[1].  Time is kept as the
\* milliseconds since the timer was armed and since the position was stored,
\* both counted up to the 500 ms of the debounce.  The walk takes minutes, so
\* the 24 hours of the cache never pass.
WalkCoords == WalkBase..(WalkBase + MaxWalk)
WalkPoints == [lat : WalkCoords, lon : {0}]
MovementThresholds == {10, 20}
WalkSteps == {250}
FetchSlots == {1, 2}

\* Math.round(lat * 10^3) for a coordinate in units of 0.0001 degree.
getGeohashTile(p) == <<(p.lat + 5) \div 10, (p.lon + 5) \div 10>>
WalkTiles == {getGeohashTile(p) : p \in WalkPoints}

\* What the geosearch request answers around p.
ArticlesAt(p) == <<p.lat>>

NoWikiCall == [pc |-> "idle", pos |-> NoPosition, newest |-> FALSE]
NoTile == <<>>

\* The call made last: its position and, once it has resolved, its result.
NoNewest == [done |-> FALSE, pos |-> NoPosition, articles |-> <<>>]

lastFetchPositionRef == input.lastFetchPosition
fetchTimeoutRef == input.timer
wikiCalls == input.calls
storeArticles == output[1]

HookInit ==
    /\ OrchIdle
    /\ \E t \in MovementThresholds :
         input = [position |-> NoPosition, sinceMove |-> 0, movementThreshold |-> t,
                  lastFetchPosition |-> NoPosition, timer |-> Null,
                  calls |-> [s \in FetchSlots |-> NoWikiCall],
                  started |-> 0, newest |-> NoNewest,
                  refreshed |-> FALSE,
                  tiles |-> [t2 \in WalkTiles |-> NoTile]]
    /\ output = << <<>> >>

\* d milliseconds pass.
HookTick(d) ==
    /\ input.position # NoPosition
    /\ input.sinceMove < DEBOUNCE_MS \/ (fetchTimeoutRef # Null /\ fetchTimeoutRef < DEBOUNCE_MS)
    /\ input' = [input EXCEPT !.sinceMove = Min(input.sinceMove + d, DEBOUNCE_MS),
                              !.timer = IF fetchTimeoutRef = Null THEN Null
                                        ELSE Min(fetchTimeoutRef + d, DEBOUNCE_MS)]
    /\ UNCHANGED <<output, orchVars>>

\* useGeolocation's handlePosition stores a position that moved by the
\* threshold; the debounce effect re-runs and arms the 500 ms timer.
handlePosition(p) ==
    /\ hasMovedSignificantly(input.position, p, input.movementThreshold * 100)
    /\ input' = [input EXCEPT !.position = p, !.sinceMove = 0, !.timer = 0]
    /\ UNCHANGED <<output, orchVars>>

\* The movement threshold is changed in the settings panel: fetchArticles is
\* a new callback, the effect re-runs; without a position it returns early.
SetMovementThreshold(t) ==
    /\ t # input.movementThreshold
    /\ input' = [input EXCEPT !.movementThreshold = t,
                              !.timer = IF input.position = NoPosition THEN Null ELSE 0]
    /\ UNCHANGED <<output, orchVars>>

FreeFetchSlot == CHOOSE s \in FetchSlots : wikiCalls[s].pc = "idle"

\* fetchArticles up to its await: TRUE when fetchNearbyArticles is called.
FetchGuard(lastPos) ==
    /\ input.position # NoPosition
    /\ \/ lastPos = NoPosition
       \/ hasMovedSignificantly(lastPos, input.position, input.movementThreshold * 2 * 100)

CanCall ==
    /\ input.started < MaxStarts
    /\ \E s \in FetchSlots : wikiCalls[s].pc = "idle"

\* The calls after fetchNearbyArticles was called for the current position.
WithNewCall ==
    [s \in FetchSlots |->
        IF s = FreeFetchSlot
        THEN [pc |-> "lookup", pos |-> input.position, newest |-> TRUE]
        ELSE [wikiCalls[s] EXCEPT !.newest = FALSE]]

\* The debounce timer fires: fetchArticles().
DebounceFire ==
    /\ fetchTimeoutRef # Null
    /\ fetchTimeoutRef >= DEBOUNCE_MS
    /\ IF FetchGuard(lastFetchPositionRef)
       THEN /\ CanCall
            /\ input' = [input EXCEPT !.timer = Null,
                                      !.calls = WithNewCall,
                                      !.newest = [NoNewest EXCEPT !.pos = input.position],
                                      !.started = input.started + 1]
       ELSE input' = [input EXCEPT !.timer = Null]
    /\ UNCHANGED <<output, orchVars>>

\* refresh(): the ref is cleared, then fetchArticles().
refresh ==
    /\ lastFetchPositionRef # NoPosition \/ FetchGuard(NoPosition)
    /\ IF FetchGuard(NoPosition)
       THEN /\ CanCall
            /\ input' = [input EXCEPT !.lastFetchPosition = NoPosition,
                                      !.refreshed = TRUE,
                                      !.calls = WithNewCall,
                                      !.newest = [NoNewest EXCEPT !.pos = input.position],
                                      !.started = input.started + 1]
       ELSE input' = [input EXCEPT !.lastFetchPosition = NoPosition, !.refreshed = TRUE]
    /\ UNCHANGED <<output, orchVars>>

\* fetchNearbyArticles resolved with articles: the rest of fetchArticles' try.
Resolved(s, articles, tiles) ==
    /\ input' = [input EXCEPT !.lastFetchPosition = wikiCalls[s].pos,
                              !.calls[s] = NoWikiCall,
                              !.tiles = tiles,
                              !.newest = IF wikiCalls[s].newest
                                         THEN [done |-> TRUE, pos |-> wikiCalls[s].pos,
                                               articles |-> articles]
                                         ELSE input.newest]
    /\ output' = <<articles>>
    /\ UNCHANGED orchVars

\* getCachedArticles(tileId) delivers an entry: it is returned.
CallLookupHit(s) ==
    /\ wikiCalls[s].pc = "lookup"
    /\ input.tiles[getGeohashTile(wikiCalls[s].pos)] # NoTile
    /\ Resolved(s, input.tiles[getGeohashTile(wikiCalls[s].pos)][1], input.tiles)

\* getCachedArticles(tileId) delivers nothing: the request is sent.
CallLookupMiss(s) ==
    /\ wikiCalls[s].pc = "lookup"
    /\ input.tiles[getGeohashTile(wikiCalls[s].pos)] = NoTile
    /\ input' = [input EXCEPT !.calls[s].pc = "request"]
    /\ UNCHANGED <<output, orchVars>>

\* The IndexedDB read rejects: fetchNearbyArticles rejects, fetchArticles'
\* catch logs the error.
CallLookupRejects(s) ==
    /\ wikiCalls[s].pc = "lookup"
    /\ input' = [input EXCEPT !.calls[s] = NoWikiCall]
    /\ UNCHANGED <<output, orchVars>>

\* The response is ok: cacheArticles(tileId, articles) is awaited.
CallResponseOk(s) ==
    /\ wikiCalls[s].pc = "request"
    /\ input' = [input EXCEPT !.calls[s].pc = "caching"]
    /\ UNCHANGED <<output, orchVars>>

\* db.wikiCache.put delivers; the articles are returned.
CallPutDelivers(s) ==
    /\ wikiCalls[s].pc = "caching"
    /\ LET articles == ArticlesAt(wikiCalls[s].pos)
       IN Resolved(s, articles,
                   [input.tiles EXCEPT ![getGeohashTile(wikiCalls[s].pos)] = <<articles>>])

\* fetch rejects or the status is not ok: the fallback lookup is awaited.
CallResponseFails(s) ==
    /\ wikiCalls[s].pc = "request"
    /\ input' = [input EXCEPT !.calls[s].pc = "fallback"]
    /\ UNCHANGED <<output, orchVars>>

\* The fallback lookup delivers: the entry's articles, or [], are returned.
CallFallbackDelivers(s) ==
    /\ wikiCalls[s].pc = "fallback"
    /\ LET fallback == input.tiles[getGeohashTile(wikiCalls[s].pos)]
       IN Resolved(s, IF fallback # NoTile THEN fallback[1] ELSE <<>>, input.tiles)

HookNext ==
    \/ \E d \in WalkSteps : HookTick(d)
    \/ \E p \in WalkPoints : handlePosition(p)
    \/ \E t \in MovementThresholds : SetMovementThreshold(t)
    \/ DebounceFire
    \/ refresh
    \/ \E s \in FetchSlots : CallLookupHit(s)
    \/ \E s \in FetchSlots : CallLookupMiss(s)
    \/ \E s \in FetchSlots : CallLookupRejects(s)
    \/ \E s \in FetchSlots : CallResponseOk(s)
    \/ \E s \in FetchSlots : CallPutDelivers(s)
    \/ \E s \in FetchSlots : CallResponseFails(s)
    \/ \E s \in FetchSlots : CallFallbackDelivers(s)

SpecHook == HookInit /\ [][HookNext]_vars

\* ------------------------------------------- model loading and the onboarding
\* The module variables of transformersLLM.ts and llm.ts, the store's
\* llmState, the loadTransformersModel activation and the initialize()
\* activations are the fields of input; the Onboarding step is output[1].
\*
\* The executor of timeoutPromise assigns to timeoutPromise._timeoutId while
\* timeoutPromise is still uninitialised (transformersLLM.ts:233).  The read
\* throws (a ReferenceError for a const, a TypeError for a down-levelled var),
\* the Promise constructor turns the throw into a rejection, and Promise.race
\* settles with it at once.  input.throws says whether the executor throws;
\* both outcomes are kept, the one the language gives and the one the code
\* intends.
LLMSlots == {1, 2}
LoadSteps == {60000}
Attempts == {"quantized", "default"}
Steps == {"intro", "location", "model", "ready"}

NoLoad == [pc |-> "none", err |-> "none", status |-> "none", pipe |-> "none",
           elapsed |-> 0, timer |-> "none", inTime |-> FALSE]
NoInit == [pc |-> "idle", ret |-> "none", from |-> "none"]

generator == input.generator
llmState == input.llmState
load == input.load
inits == input.calls
step == output[1]

isTransformersModelLoaded == generator

LLMInit ==
    /\ OrchIdle
    /\ \E b \in BOOLEAN :
         input = [throws |-> b, generator |-> FALSE, isLoading |-> FALSE,
                  isInitializing |-> FALSE, currentBackend |-> "none",
                  llmState |-> [isLoading |-> FALSE, isReady |-> FALSE, error |-> FALSE],
                  load |-> NoLoad, calls |-> [c \in LLMSlots |-> NoInit], made |-> 0,
                  perm |-> "idle", granted |-> FALSE, skip |-> "idle", skipped |-> FALSE,
                  loaded |-> FALSE]
    /\ output = <<"intro">>

\* initialize() has returned ok to its caller: Onboarding's handleLoadModel
\* goes on to await initAudio().
Returned(c, from, ok) ==
    [pc |-> IF from = "onboarding" THEN "audio" ELSE "done",
     ret |-> IF ok THEN "true" ELSE "false", from |-> from]

\* As AfterInitialize, without the two tests of llmState.
AfterInitialize_NoStoreCheck(c, from, attempt) ==
    LET counted == [input EXCEPT !.made = input.made + 1]
    IN IF isTransformersModelLoaded
       THEN [counted EXCEPT !.llmState = [isLoading |-> FALSE, isReady |-> TRUE, error |-> FALSE],
                            !.calls[c] = Returned(c, from, TRUE)]
       ELSE IF input.isLoading
       THEN [counted EXCEPT !.llmState = [isLoading |-> FALSE, isReady |-> FALSE, error |-> TRUE],
                            !.calls[c] = Returned(c, from, FALSE)]
       ELSE IF input.throws
       THEN [counted EXCEPT !.llmState = [isLoading |-> FALSE, isReady |-> FALSE, error |-> TRUE],
                            !.load = [pc |-> "rejected", err |-> "executor", status |-> "error",
                                      pipe |-> attempt, elapsed |-> 0, timer |-> "pending",
                                      inTime |-> FALSE],
                            !.calls[c] = Returned(c, from, FALSE)]
       ELSE [counted EXCEPT !.isLoading = TRUE, !.isInitializing = TRUE,
                            !.llmState = [isLoading |-> TRUE, isReady |-> FALSE, error |-> FALSE],
                            !.load = [pc |-> "racing", err |-> "none", status |-> "downloading",
                                      pipe |-> attempt, elapsed |-> 0, timer |-> "pending",
                                      inTime |-> FALSE],
                            !.calls[c] = [pc |-> "loading", ret |-> "none", from |-> from]]

\* input after initialize() was called and ran up to its first await that
\* does not settle in the same task.
AfterInitialize(c, from, attempt) ==
    LET counted == [input EXCEPT !.made = input.made + 1]
    IN IF llmState.isReady
       THEN [counted EXCEPT !.calls[c] = Returned(c, from, TRUE)]
       ELSE IF llmState.isLoading
       THEN [counted EXCEPT !.calls[c] = Returned(c, from, FALSE)]
       ELSE IF isTransformersModelLoaded
       THEN [counted EXCEPT !.llmState = [isLoading |-> FALSE, isReady |-> TRUE, error |-> FALSE],
                            !.calls[c] = Returned(c, from, TRUE)]
       ELSE IF input.isLoading
       THEN [counted EXCEPT !.llmState = [isLoading |-> FALSE, isReady |-> FALSE, error |-> TRUE],
                            !.calls[c] = Returned(c, from, FALSE)]
       ELSE IF input.throws
       THEN [counted EXCEPT !.llmState = [isLoading |-> FALSE, isReady |-> FALSE, error |-> TRUE],
                            !.load = [pc |-> "rejected", err |-> "executor", status |-> "error",
                                      pipe |-> attempt, elapsed |-> 0, timer |-> "pending",
                                      inTime |-> FALSE],
                            !.calls[c] = Returned(c, from, FALSE)]
       ELSE [counted EXCEPT !.isLoading = TRUE, !.isInitializing = TRUE,
                            !.llmState = [isLoading |-> TRUE, isReady |-> FALSE, error |-> FALSE],
                            !.load = [pc |-> "racing", err |-> "none", status |-> "downloading",
                                      pipe |-> attempt, elapsed |-> 0, timer |-> "pending",
                                      inTime |-> FALSE],
                            !.calls[c] = [pc |-> "loading", ret |-> "none", from |-> from]]

CanInitialize(c) ==
    /\ input.made < MaxInits
    /\ inits[c].pc \in {"idle", "done"}
    /\ \A d \in LLMSlots : d < c => inits[d].pc \notin {"idle", "done"}

\* initialize() called by a caller other than a button of the model step.
initialize(c) ==
    /\ CanInitialize(c)
    /\ \E a \in Attempts : input' = AfterInitialize(c, "other", a)
    /\ UNCHANGED <<output, orchVars>>

\* LOAD AI MODEL or RETRY is clicked: handleLoadModel up to `await initLLM()`.
handleLoadModel(c) ==
    /\ step = "model"
    /\ ~llmState.isLoading
    /\ CanInitialize(c)
    /\ \E a \in Attempts : input' = AfterInitialize(c, "onboarding", a)
    /\ UNCHANGED <<output, orchVars>>

LoadingCall == CHOOSE c \in LLMSlots : inits[c].pc = "loading"

\* The race has settled: the rest of loadTransformersModel,
\* initializeTransformers, initializeLLM and initialize.
Settled(ok, err, changes) ==
    [changes EXCEPT !.generator = ok,
                    !.isLoading = FALSE,
                    !.isInitializing = FALSE,
                    !.currentBackend = IF ok THEN "transformers" ELSE @,
                    !.llmState = [isLoading |-> FALSE, isReady |-> ok, error |-> ~ok],
                    !.loaded = @ \/ ok,
                    !.load.pc = IF ok THEN "resolved" ELSE "rejected",
                    !.load.err = err,
                    !.load.status = IF ok THEN "ready" ELSE "error",
                    !.calls[LoadingCall] = Returned(LoadingCall, inits[LoadingCall].from, ok)]

LoadTick(d) ==
    /\ load.timer = "pending"
    /\ load.elapsed < LOAD_TIMEOUT_MS
    /\ input' = [input EXCEPT !.load.elapsed = Min(load.elapsed + d, LOAD_TIMEOUT_MS)]
    /\ UNCHANGED <<output, orchVars>>

\* pipeline() resolves with the generator.
PipelineResolves ==
    /\ load.pipe \in Attempts
    /\ LET changes == [input EXCEPT !.load.pipe = "loaded",
                                    !.load.inTime = (load.timer = "pending")]
       IN input' = IF load.pc = "racing" THEN Settled(TRUE, "none", changes) ELSE changes
    /\ UNCHANGED <<output, orchVars>>

\* pipeline() rejects: the quantized attempt is followed by the default one,
\* the default one rejects loadPromise.
PipelineRejects ==
    /\ load.pipe \in Attempts
    /\ IF load.pipe = "quantized"
       THEN input' = [input EXCEPT !.load.pipe = "default"]
       ELSE LET changes == [input EXCEPT !.load.pipe = "failed"]
            IN input' = IF load.pc = "racing" THEN Settled(FALSE, "pipeline", changes)
                        ELSE changes
    /\ UNCHANGED <<output, orchVars>>

\* The LOAD_TIMEOUT_MS timer fires: reject(new Error('Model loading timed out...')).
TimeoutFires ==
    /\ load.timer = "pending"
    /\ load.elapsed >= LOAD_TIMEOUT_MS
    /\ LET changes == [input EXCEPT !.load.timer = "fired"]
       IN input' = IF load.pc = "racing" THEN Settled(FALSE, "timeout", changes) ELSE changes
    /\ UNCHANGED <<output, orchVars>>

\* IntroStep's button.
IntroContinue ==
    /\ step = "intro"
    /\ output' = <<"location">>
    /\ UNCHANGED <<input, orchVars>>

\* GRANT LOCATION ACCESS: handleRequestLocation up to `await requestPermission()`.
handleRequestLocation ==
    /\ step = "location"
    /\ input.perm = "idle"
    /\ input' = [input EXCEPT !.perm = "asked"]
    /\ UNCHANGED <<output, orchVars>>

\* requestPermission() returns granted; setStep('model') when it is true.
PermissionReturns(isGranted) ==
    /\ input.perm = "asked"
    /\ input' = [input EXCEPT !.perm = "idle", !.granted = @ \/ isGranted]
    /\ output' = IF isGranted THEN <<"model">> ELSE output
    /\ UNCHANGED orchVars

\* 'Skip for now' or 'Continue without AI': handleSkipModel up to `await initAudio()`.
handleSkipModel ==
    /\ step = "model"
    /\ ~llmState.isLoading
    /\ input.skip = "idle"
    /\ input' = [input EXCEPT !.skip = "audio", !.skipped = TRUE]
    /\ UNCHANGED <<output, orchVars>>

\* initAudio() of handleSkipModel returns (it catches its own errors).
SkipAudioReturns ==
    /\ input.skip = "audio"
    /\ input' = [input EXCEPT !.skip = "idle"]
    /\ output' = <<"ready">>
    /\ UNCHANGED orchVars

\* initAudio() of handleLoadModel returns: setStep('ready').
LoadAudioReturns(c) ==
    /\ inits[c].pc = "audio"
    /\ input' = [input EXCEPT !.calls[c].pc = "done"]
    /\ output' = <<"ready">>
    /\ UNCHANGED orchVars

LLMNext ==
    \/ \E c \in LLMSlots : initialize(c)
    \/ \E c \in LLMSlots : handleLoadModel(c)
    \/ \E d \in LoadSteps : LoadTick(d)
    \/ PipelineResolves
    \/ PipelineRejects
    \/ TimeoutFires
    \/ IntroContinue
    \/ handleRequestLocation
    \/ \E b \in BOOLEAN : PermissionReturns(b)
    \/ handleSkipModel
    \/ SkipAudioReturns
    \/ \E c \in LLMSlots : LoadAudioReturns(c)

SpecLLM == LLMInit /\ [][LLMNext]_vars

\* ------------------------------------------------------- transmission history
\* db.transmissions under generate() and the loadTransmissions effect.  As for
\* the settings table, each Dexie operation is one IndexedDB transaction,
\* transactions on the table run in the order they were requested, and the
\* continuation of an await runs in the task that delivers its result.  Here
\* input is [clock, gen, queue, saves, mounts, persisted, raced], output is
\* <<store.recentTransmissions, db.transmissions>>; the table is the sequence
\* of the rows' timestamps, a row's id being its index.  One generate() call is
\* in flight at a time (its isGenerating guard).
StoredBefore == {0, 49}
recentLog == output[1]
transmissionsTable == output[2]

\* Row a comes before row b in orderBy('timestamp').reverse(): the index is
\* ordered by timestamp, then by primary key.
Newer(table, a, b) == table[a] > table[b] \/ (table[a] = table[b] /\ a > b)

\* The ids of the table's rows in that order.
SortedRows(table) ==
    SortSeq([a \in 1..Len(table) |-> a], LAMBDA a, b : Newer(table, a, b))

\* db.transmissions.orderBy('timestamp').reverse().limit(limit).toArray()
getRecentTransmissions(table, limit) == Slice(SortedRows(table), limit)

\* [transmission, ...state.recentTransmissions].slice(0, 50)
addTransmissionTo(list, id) == Slice(<<id>> \o list, HISTORY_CAP)

LogInit ==
    /\ OrchIdle
    /\ input = [clock |-> 0, gen |-> "idle", queue |-> <<>>, saves |-> 0, mounts |-> 0,
                persisted |-> {}, raced |-> FALSE]
    /\ \E n \in StoredBefore : output = << <<>>, [k \in 1..n |-> 0] >>

LogTick ==
    /\ input.clock < MaxStamp
    /\ input' = [input EXCEPT !.clock = @ + 1]
    /\ UNCHANGED <<output, orchVars>>

\* A component using useTransmissions mounts (App, the history panel): the
\* effect calls loadTransmissions, which requests getRecentTransmissions(50).
MountLoads ==
    /\ input.mounts < MaxMounts
    /\ input' = [input EXCEPT !.mounts = @ + 1,
                              !.queue = Append(@, [op |-> "read", stamp |-> 0,
                                                    seen |-> Len(transmissionsTable),
                                                    during |-> input.gen # "idle"])]
    /\ UNCHANGED <<output, orchVars>>

\* generate() up to `await generateText(prompt)`.
StartGenerate ==
    /\ input.gen = "idle"
    /\ input.saves < MaxSaves
    /\ input' = [input EXCEPT !.gen = "text", !.saves = @ + 1]
    /\ UNCHANGED <<output, orchVars>>

\* generateText resolves: the record is stamped and saveTransmission requested.
TextArrives ==
    /\ input.gen = "text"
    /\ input' = [input EXCEPT !.gen = "save",
                              !.queue = Append(@, [op |-> "add", stamp |-> input.clock,
                                                    seen |-> Len(transmissionsTable),
                                                    during |-> TRUE])]
    /\ UNCHANGED <<output, orchVars>>

\* generateText rejects: generate() catches and returns null.
TextFails ==
    /\ input.gen = "text"
    /\ input' = [input EXCEPT !.gen = "idle"]
    /\ UNCHANGED <<output, orchVars>>

\* add() delivers the new id; generateTransmission returns and generate()
\* calls addTransmission in the same task.  The speech that may follow touches
\* neither the table nor the list, so the call is taken as ended here.
SaveTransmissionDelivers ==
    /\ input.queue # <<>>
    /\ Head(input.queue).op = "add"
    /\ LET id == Len(transmissionsTable) + 1
       IN /\ output' = <<addTransmissionTo(recentLog, id),
                         Append(transmissionsTable, Head(input.queue).stamp)>>
          /\ input' = [input EXCEPT !.queue = Tail(@), !.gen = "idle",
                                    !.persisted = @ \cup {id}]
    /\ UNCHANGED orchVars

\* add() rejects: nothing is stored, generate() catches and returns null.
SaveTransmissionRejects ==
    /\ input.queue # <<>>
    /\ Head(input.queue).op = "add"
    /\ input' = [input EXCEPT !.queue = Tail(@), !.gen = "idle"]
    /\ UNCHANGED <<output, orchVars>>

\* The rows a read sees as stored.
RowsRead_AtRequest(op) == SubSeq(transmissionsTable, 1, op.seen)

RowsRead(op) == transmissionsTable

\* toArray() delivers: setRecentTransmissions(transmissions).
GetRecentDelivers ==
    /\ input.queue # <<>>
    /\ Head(input.queue).op = "read"
    /\ output' = <<getRecentTransmissions(RowsRead(Head(input.queue)), LOAD_LIMIT),
                   transmissionsTable>>
    /\ input' = [input EXCEPT !.queue = Tail(@),
                              !.raced = @ \/ Head(input.queue).during
                                          \/ input.gen # "idle"]
    /\ UNCHANGED orchVars

\* toArray() rejects: loadTransmissions has no catch, the store is not set.
GetRecentRejects ==
    /\ input.queue # <<>>
    /\ Head(input.queue).op = "read"
    /\ input' = [input EXCEPT !.queue = Tail(@)]
    /\ UNCHANGED <<output, orchVars>>

LogNext ==
    \/ LogTick
    \/ MountLoads
    \/ StartGenerate
    \/ TextArrives
    \/ TextFails
    \/ SaveTransmissionDelivers
    \/ SaveTransmissionRejects
    \/ GetRecentDelivers
    \/ GetRecentRejects

SpecLog == LogInit /\ [][LogNext]_vars

\* ------------------------------------------- mounts, the watch and the static
\* The components that hold useGeolocation and useAudio instances: Onboarding
\* (mounted until hasCompletedOnboarding), App (never unmounted; its
\* useGeolocation instance never calls startWatching, so its watchIdRef stays
\* null) and the history panel (mounted while the view is 'history').  input
\* holds the Onboarding step, the pending permission queries, the watches
\* registered with navigator.geolocation, Onboarding's watchIdRef, the engine's
\* audioContext and isPlaying, each instance's isInitializedRef and its
\* activation waiting for loadVoices (one per instance); output is
\* <<store.isWatching, store.audioState.isPlaying>>.
Hooks == {"Onboarding", "App"}
QueryStates == {"granted", "prompt", "denied", "error"}
isWatching == output[1]
audioIsPlaying == output[2]
isStaticPlaying == input.enginePlaying

ShellInit ==
    /\ OrchIdle
    /\ input = [step |-> "location", asks |-> 0, asked |-> 0, denied |-> FALSE,
                completed |-> FALSE, view |-> "drift",
                watchIdRef |-> Null, watches |-> {}, registered |-> 0,
                audioContext |-> FALSE, enginePlaying |-> FALSE,
                isInitializedRef |-> [h \in Hooks |-> FALSE],
                pending |-> [h \in Hooks |-> "idle"],
                isWatching |-> FALSE, isPlaying |-> FALSE]
    /\ output = <<FALSE, FALSE>>

\* startWatching of Onboarding's instance (geolocation is supported, or
\* requestPermission returned before calling it).
startWatching(s) ==
    IF s.watchIdRef # Null
    THEN s
    ELSE [s EXCEPT !.registered = @ + 1,
                   !.watchIdRef = s.registered + 1,
                   !.watches = @ \cup {s.registered + 1},
                   !.isWatching = TRUE]

\* disposeAudio: stopStatic, close the context.
disposeAudio(s) == [s EXCEPT !.enginePlaying = FALSE, !.audioContext = FALSE]

\* The rest of start() after its initialize(): startStatic returns early
\* without a context or when already playing; setAudioState({isPlaying: true}).
AfterStart(s) ==
    [s EXCEPT !.enginePlaying = @ \/ s.audioContext, !.isPlaying = TRUE]

\* Onboarding unmounts: the cleanups of its useGeolocation and useAudio.
Unmounted(s) ==
    disposeAudio([s EXCEPT !.completed = TRUE,
                           !.watches = IF s.watchIdRef # Null
                                       THEN @ \ {s.watchIdRef} ELSE @])

\* initialize() of instance h up to the point where it returns or waits for
\* loadVoices: a set reference returns, an existing context makes
\* initializeAudio return at once, a new context is created (waits) or its
\* constructor throws (caught, the reference stays false).
InitializeOutcomes(s, h) ==
    IF s.isInitializedRef[h]
    THEN {[s |-> s, waits |-> FALSE]}
    ELSE IF s.audioContext
    THEN {[s |-> [s EXCEPT !.isInitializedRef[h] = TRUE], waits |-> FALSE]}
    ELSE {[s |-> [s EXCEPT !.audioContext = TRUE], waits |-> TRUE],
          [s |-> s, waits |-> FALSE]}

\* GRANT LOCATION ACCESS: handleRequestLocation up to the permissions query.
GrantClicked ==
    /\ ~input.completed
    /\ input.step = "location"
    /\ ~input.denied
    /\ input.asked < MaxAsks
    /\ input' = [input EXCEPT !.asks = @ + 1, !.asked = @ + 1]
    /\ UNCHANGED <<output, orchVars>>

\* navigator.permissions.query settles: the rest of requestPermission and of
\* handleRequestLocation.
QueryReturns(state) ==
    /\ input.asks > 0
    /\ LET s == [input EXCEPT !.asks = @ - 1]
           next == IF state = "denied"
                   THEN [s EXCEPT !.denied = TRUE]
                   ELSE [startWatching(s) EXCEPT !.step = IF s.completed THEN @ ELSE "model"]
       IN /\ input' = next
          /\ output' = <<next.isWatching, next.isPlaying>>
    /\ UNCHANGED orchVars

\* A button of the model step: handleSkipModel, or handleLoadModel once
\* initLLM() has returned, up to `await initAudio()` and beyond it when
\* initialize() does not wait.
InitAudioClicked ==
    /\ ~input.completed
    /\ input.step = "model"
    /\ input.pending["Onboarding"] = "idle"
    /\ \E o \in InitializeOutcomes(input, "Onboarding") :
         input' = IF o.waits
                  THEN [o.s EXCEPT !.pending["Onboarding"] = "initAudio"]
                  ELSE [o.s EXCEPT !.step = "ready"]
    /\ UNCHANGED <<output, orchVars>>

\* The button of the ready step: handleComplete.  When start() does not wait
\* it ends with setHasCompletedOnboarding(true) and App renders without
\* Onboarding, whose cleanups run.
CompleteClicked ==
    /\ ~input.completed
    /\ input.step = "ready"
    /\ input.pending["Onboarding"] = "idle"
    /\ \E o \in InitializeOutcomes(input, "Onboarding") :
         LET next == IF o.waits
                     THEN [o.s EXCEPT !.pending["Onboarding"] = "complete"]
                     ELSE Unmounted(AfterStart(o.s))
         IN /\ input' = next
            /\ output' = <<next.isWatching, next.isPlaying>>
    /\ UNCHANGED orchVars

\* App's audio button: toggle.
AppToggle ==
    /\ input.completed
    /\ input.view = "drift"
    /\ input.pending["App"] = "idle"
    /\ \E o \in InitializeOutcomes(input, "App") :
         LET next == IF audioIsPlaying
                     THEN [input EXCEPT !.enginePlaying = FALSE, !.isPlaying = FALSE]
                     ELSE IF o.waits
                     THEN [o.s EXCEPT !.pending["App"] = "start"]
                     ELSE AfterStart(o.s)
         IN /\ input' = next
            /\ output' = <<next.isWatching, next.isPlaying>>
    /\ UNCHANGED orchVars

\* loadVoices resolves: initializeAudio returns, isInitializedRef is set and
\* the waiting handler goes on.
VoicesLoaded(h) ==
    /\ input.pending[h] # "idle"
    /\ LET s == [input EXCEPT !.isInitializedRef[h] = TRUE, !.pending[h] = "idle"]
           next == IF input.pending[h] = "initAudio"
                   THEN [s EXCEPT !.step = "ready"]
                   ELSE IF input.pending[h] = "complete"
                   THEN Unmounted(AfterStart(s))
                   ELSE AfterStart(s)
       IN /\ input' = next
          /\ output' = <<next.isWatching, next.isPlaying>>
    /\ UNCHANGED orchVars

\* setView('history'): TransmissionLog mounts with its own useAudio instance.
OpenHistory ==
    /\ input.completed
    /\ input.view = "drift"
    /\ input' = [input EXCEPT !.view = "history"]
    /\ UNCHANGED <<output, orchVars>>

\* [CLOSE]: TransmissionLog unmounts, the cleanup of its useAudio runs.
CloseHistory ==
    /\ input.view = "history"
    /\ input' = disposeAudio([input EXCEPT !.view = "drift"])
    /\ UNCHANGED <<output, orchVars>>

ShellNext ==
    \/ GrantClicked
    \/ \E q \in QueryStates : QueryReturns(q)
    \/ InitAudioClicked
    \/ CompleteClicked
    \/ AppToggle
    \/ \E h \in Hooks : VoicesLoaded(h)
    \/ OpenHistory
    \/ CloseHistory

SpecShell == ShellInit /\ [][ShellNext]_vars

\* ------------------------------------------------------------------ claims

InFlight == {c \in Slots : calls[c].pc # "idle"}

\* C1: at most one generate() activation is between its start and its end at
\* any time, so no call made while a generation is in progress reaches
\* generateTransmission.
C1_AtMostOneInFlight == Cardinality(InFlight) <= 1

\* A generate() call was made while a generation was in progress and returned null.
C1_Witness == genLog = "refused" /\ InFlight # {} /\ position # Null /\ llmReady

\* What keeps a generate() that awaits speech able to finish: its utterance is
\* in the synthesizer (an end or error event will come), or a pending 300 ms
\* timer will still hand it to the synthesizer.
SpeechCanSettle(u) ==
    \/ utts[u].synth \in {"queued", "event"}
    \/ currentUtterance = u /\ \E v \in Utts : utts[v].timer

\* C2: a generate() that set isGenerating is never left without a pending
\* event that lets it reach its finally block (the text and save promises are
\* taken to settle; the speech promise must be able to).
C2_GenerateCanFinish ==
    \A c \in Slots : calls[c].pc = "awaitSpeak" => SpeechCanSettle(calls[c].utt)

\* C3: in the task where saveTransmission rejects, lastGeneratedAt is set to
\* the current time.
C3_FailedSaveStillStamps ==
    [][\A c \in Slots :
          (calls[c].pc = "awaitSave" /\ calls'[c].pc = "idle" /\ transmissions' = transmissions)
          => lastGeneratedAt' = now]_vars

\* C4: in the task where generateText rejects, saveTransmission is not called
\* and the table, recentTransmissions, currentTransmission, currentPhantom and
\* lastGeneratedAt stay as they were.
C4_FailedTextCreatesNothing ==
    [][\A c \in Slots :
          (calls[c].pc = "awaitText" /\ calls'[c].pc = "idle")
          => UNCHANGED <<transmissions, recentTransmissions, currentTransmission,
                         currentPhantom, lastGeneratedAt>>]_vars

\* generateText has just rejected for a generation, with an earlier one stored.
C4_Witness == genLog = "textFailed" /\ transmissions # {} /\ InFlight = {}

\* C5: with lastGeneratedAt present, the result is: articlesChanged, then
\* false iff now - lastGeneratedAt < 10000; else true iff now - lastGeneratedAt
\* >= intervalMs.
C5_PolicyTable ==
    (output # <<>> /\ input.lastGeneratedAt # Null) =>
        output[1] = IF input.articlesChanged
                    THEN ~(input.dateNow - input.lastGeneratedAt < 10000)
                    ELSE input.dateNow - input.lastGeneratedAt >= input.intervalMs

\* A changed anchor set is denied inside the cool-down though the interval has elapsed.
C5_Witness ==
    /\ output = <<FALSE>>
    /\ input.articlesChanged
    /\ input.lastGeneratedAt # Null
    /\ input.dateNow - input.lastGeneratedAt >= input.intervalMs

\* C6: with lastGeneratedAt = null the result is true.
C6_FirstAlwaysPermits ==
    (output # <<>> /\ input.lastGeneratedAt = Null) => output[1] = TRUE

\* The policy was applied to no prior generation and an unchanged anchor set.
C6_Witness ==
    output = <<TRUE>> /\ input.lastGeneratedAt = Null /\ ~input.articlesChanged

\* C7: an effect evaluation with no prior generation arms the timer (auto-play
\* on), and a generation started by a timer starts with no prior generation or
\* at least 10,000 ms after lastGeneratedAt.
C7_NoAutoStartInCooldown ==
    [][/\ \A c \in Slots :
             (calls[c].pc = "idle" /\ calls'[c].pc = "awaitText" /\ calls'[c].trigger = "timer")
             => (lastGeneratedAt = Null \/ now - lastGeneratedAt >= 10000)
       /\ \A i \in Inst :
             (evalLog'[i] # "none" /\ lastGeneratedAt' = Null /\ autoPlay')
             => genTimer'[i] # Null]_vars

\* The anchor set changed significantly inside the window and no timer was armed.
C7_Witness ==
    \E i \in Inst :
        /\ evalLog[i] = "changed"
        /\ lastGeneratedAt # Null
        /\ now - lastGeneratedAt < 10000
        /\ autoPlay
        /\ genTimer[i] = Null

\* C8: false for two empty lists; else true when the lengths differ by 2 or
\* more; else true iff at least 2 of the first 3 anchors of new have an
\* identifier that none of the first 3 anchors of old has.
C8_ChangedTable ==
    output # <<>> =>
        LET old == input.oldArticles
            new == input.newArticles
            absent == {new[k] : k \in 1..Min(3, Len(new))}
                          \ {old[j] : j \in 1..Min(3, Len(old))}
        IN output[1] = IF Len(old) = 0 /\ Len(new) = 0 THEN FALSE
                       ELSE IF Len(old) - Len(new) >= 2 \/ Len(new) - Len(old) >= 2 THEN TRUE
                       ELSE Cardinality(absent) >= 2

\* One anchor among the first 3 was replaced and no change is reported.
C8_Witness ==
    /\ input.oldArticles = <<1, 2, 3>>
    /\ input.newArticles = <<1, 2, 4>>
    /\ output = <<FALSE>>

SameListUnchanged == \A A \in AnchorLists : ~haveArticlesChanged(A, A)

\* C9 as stated: haveArticlesChanged(A, A) is false, and an effect run in a
\* task that leaves nearbyArticles as it was reports no change.
C9_Original ==
    [][/\ SameListUnchanged
       /\ \A i \in Inst :
             (evalLog'[i] # "none" /\ nearbyArticles' = nearbyArticles)
             => evalLog'[i] = "same"]_vars

\* C9 amended: haveArticlesChanged(A, A) is false, and an effect run that finds
\* nearbyArticles equal to the list its last evaluation stored in
\* previousArticlesRef reports no change.
C9_Amended ==
    [][/\ SameListUnchanged
       /\ \A i \in Inst :
             (evalLog'[i] # "none" /\ nearbyArticles' = PrevRef(i))
             => evalLog'[i] = "same"]_vars

\* An effect evaluated again on the non-empty list it had recorded.
C9_Witness ==
    \E i \in Inst : evalLog[i] = "same" /\ nearbyArticles # <<>> /\ prevArticles[i] = nearbyArticles

\* C10: the coordinates returned are never both equal to the observer's.
C10_PhantomNotAtObserver ==
    output # <<>> =>
        ~(/\ output[1].lat = input.userPos.lat * output[1].den
          /\ output[1].lon = input.userPos.lon * output[1].den)

\* C11: the phantom's anchors are the titles of the first min(n, 5) anchors in
\* input order, repeated titles kept, and the transmission's nearbyAnchors is
\* the same list.
C11_AnchorsAreFirstFive ==
    output # <<>> =>
        LET titles == output[1].phantom.anchors
            n == Len(input.articles)
            m == IF n < 5 THEN n ELSE 5
        IN /\ Len(titles) = m
           /\ \A k \in 1..m : titles[k] = input.articles[k].title
           /\ output[1].transmission.nearbyAnchors = titles

\* Six anchors with a repeated title were given and five titles kept.
C11_Witness ==
    /\ output # <<>>
    /\ Len(input.articles) = 6
    /\ input.articles[1].title = input.articles[2].title
    /\ input.articles[1].title # input.articles[3].title
    /\ Len(output[1].phantom.anchors) = 5

\* C12: with no anchors the phantom's latitude and longitude are each within
\* 0.001 degree (10 units) of the observer's, dimensionalDrift is not
\* negative and the anchors list is empty.
C12_EmptyStaysNear ==
    (output # <<>> /\ Len(input.articles) = 0) =>
        LET ph == output[1].phantom
        IN /\ Abs(ph.lat - input.userPos.lat * ph.den) <= 10 * ph.den
           /\ Abs(ph.lon - input.userPos.lon * ph.den) <= 10 * ph.den
           /\ ph.driftNum >= 0 /\ ph.driftDen > 0
           /\ ph.anchors = <<>>

\* The empty list was synthesized with the largest drift, Math.random() = 0.
C12_Witness ==
    /\ output # <<>>
    /\ Len(input.articles) = 0
    /\ input.k1 = 0
    /\ output[1].phantom.lat # input.userPos.lat * output[1].phantom.den

\* C13: the result is true iff there is no previous position or the distance
\* is at least the threshold; so true for no previous position and false for
\* previous = current with a threshold above 0.
C13_MovedIffFarEnough ==
    output # <<>> =>
        /\ output[1] = (\/ input.oldPos = NoPosition
                        \/ ~(calculateDistanceSq(input.oldPos, input.newPos)
                               < input.threshold * input.threshold))
        /\ input.oldPos = NoPosition => output[1] = TRUE
        /\ (input.oldPos = input.newPos /\ input.threshold > 0) => output[1] = FALSE

\* The check ran on two positions exactly one threshold apart.
C13_Witness ==
    /\ output = <<TRUE>>
    /\ input.oldPos # NoPosition
    /\ input.threshold = CM_PER_UNIT
    /\ calculateDistanceSq(input.oldPos, input.newPos) = CM_PER_UNIT * CM_PER_UNIT

\* C14: after n setPosition calls positionHistory holds the most recent
\* min(n, 20) positions in arrival order, and its last element is the current
\* position.
C14_HistoryIsLastTwenty ==
    LET n == Len(input)
        h == output[1].positionHistory
        m == IF n < 20 THEN n ELSE 20
    IN /\ Len(h) = m
       /\ \A k \in 1..m : h[k] = input[n - m + k]
       /\ n > 0 => h[m] = output[1].position

\* More than 20 fixes arrived and the evicted ones differ from the kept ones.
C14_Witness ==
    /\ Len(input) > 20
    /\ input[1] = 2
    /\ input[21] = 1
    /\ Len(output[1].positionHistory) = 20

\* C15: the steps of a generateTransmission call are a prefix of style
\* selection, phantom synthesis, prompt construction, text generation, text
\* cleaning, persistence; generateText is called once, saveTransmission at
\* most once and only after generateText resolved.
C15_StepsInOrder ==
    LET Order == <<"selectRandomStyle", "createPhantomLocation", "constructPrompt",
                   "generateText", "cleanTransmission", "saveTransmission">>
        Count(st, name) == Cardinality({k \in 1..Len(st) : st[k] = name})
    IN \A c \in Slots :
          calls[c].pc # "idle" =>
             LET st == calls[c].steps
             IN /\ Len(st) <= Len(Order)
                /\ \A k \in 1..Len(st) : st[k] = Order[k]
                /\ Count(st, "generateText") = 1
                /\ Count(st, "saveTransmission") <= 1
                /\ Count(st, "saveTransmission") = 1 => calls[c].pc # "awaitText"
                /\ calls[c].pc = "awaitText" => Len(st) = 4
                /\ calls[c].pc = "awaitSave" => Len(st) = 6

\* A call has cleaned the text and called saveTransmission.
C15_Witness ==
    \E c \in Slots :
        /\ calls[c].pc = "awaitSave"
        /\ calls[c].steps[Len(calls[c].steps)] = "saveTransmission"

\* C16: db.settings holds at most one record.
C16_OneSettingsRecord == Cardinality(settingsTable) <= 1

\* C17: a call whose request failed, for a tile whose articles had been cached
\* earlier, returns those articles.
C17_FailedFetchReturnsStored ==
    (/\ fetchCall.pc = "done"
     /\ fetchCall.failed
     /\ input.stored[fetchCall.tile] # NoEntry)
    => fetchCall.result = input.stored[fetchCall.tile].articles

\* C18: the initial lookup returns an entry at most 24 hours old without a
\* request and never returns an older one; a successful response stores the
\* fetched articles for the tile, stamped with the time of the response, and
\* leaves the other tiles' entries alone.
C18_CachePolicy ==
    [][LET t == fetchCall.tile
           c == fetchCall
           d == input'.call
       IN /\ (c.pc = "lookup" /\ d.pc # "lookup" /\ wikiCache[t] # NoEntry
                /\ input.now - wikiCache[t].fetchedAt <= 86400000)
             => (d.pc = "done" /\ d.requests = 0 /\ d.result = wikiCache[t].articles)
          /\ (c.pc = "lookup" /\ d.pc # "lookup" /\ wikiCache[t] # NoEntry
                /\ input.now - wikiCache[t].fetchedAt > 86400000)
             => d.pc = "request"
          /\ (c.pc = "request" /\ d.pc = "caching") => d.pending.fetchedAt = input.now
          /\ (c.pc = "caching" /\ d.pc = "done")
             => /\ output'[1][t] = c.pending
                /\ d.result = c.pending.articles
                /\ \A u \in Tiles \ {t} : output'[1][u] = wikiCache[u]]_vars

\* A lookup has just returned an entry exactly 24 hours old, with no request.
C18_Witness ==
    /\ fetchCall.pc = "done"
    /\ fetchCall.requests = 0
    /\ wikiCache[fetchCall.tile] # NoEntry
    /\ fetchCall.lookupAt - wikiCache[fetchCall.tile].fetchedAt = 86400000
    /\ fetchCall.result = wikiCache[fetchCall.tile].articles

\* C19: while autoPlay is false no instance holds a pending trigger timer, and
\* every generation a timer starts starts with autoPlay true.
C19_NoAutoStartWhenOff ==
    [][/\ ~autoPlay' => \A i \in Inst : genTimer'[i] = Null
       /\ \A c \in Slots :
             (calls[c].pc = "idle" /\ calls'[c].pc = "awaitText" /\ calls'[c].trigger = "timer")
             => autoPlay]_vars

\* autoPlay is off, the effect has just run where it would otherwise arm the
\* timer (no prior generation), and no timer is pending.
C19_Witness ==
    /\ ~autoPlay
    /\ evalLog["App"] # "none"
    /\ lastGeneratedAt = Null
    /\ genTimer["App"] = Null

\* C20: with auto-play on, the model ready, a position known, no generation in
\* flight and transmissionInterval seconds elapsed since the last generation,
\* eventually a generation starts, or at least the trigger timer that starts
\* one is armed (unless auto-play is switched off or the interval is raised
\* beyond the time elapsed).
C20_IntervalEventuallyTriggers ==
    (/\ autoPlay /\ llmReady /\ position # Null
     /\ InFlight = {} /\ genCount < MaxGen
     /\ lastGeneratedAt # Null
     /\ now - lastGeneratedAt >= transmissionInterval * 1000)
    ~> \/ InFlight # {}
       \/ \E i \in Inst : genTimer[i] # Null
       \/ ~autoPlay
       \/ now - lastGeneratedAt < transmissionInterval * 1000

\* C21: for every input text the result ends with '.', '!' or '?'.
C21_EndsWithTerminal ==
    output # <<>> => At(output[1], Len(output[1])) \in Terminal

\* C22: a text whose trimmed form starts and ends with the same quote
\* character loses exactly that outer pair and keeps its inner quotes and its
\* terminal punctuation; any other text keeps all its quotes.
QuoteCount(s) == Cardinality({i \in 1..Len(s) : s[i] \in {"dq", "sq"}})

Wrapped(t) ==
    \/ At(t, 1) = "dq" /\ At(t, Len(t)) = "dq"
    \/ At(t, 1) = "sq" /\ At(t, Len(t)) = "sq"

C22_Original ==
    output # <<>> =>
        LET t == Trim(input)
            r == output[1]
        IN /\ Wrapped(t) =>
                /\ QuoteCount(r) = QuoteCount(t) - 2
                /\ At(t, Len(t) - 1) \in Terminal => At(r, Len(r)) = At(t, Len(t) - 1)
           /\ ~Wrapped(t) => QuoteCount(r) = QuoteCount(t)

\* C22 (amended): the first and the last character of a wrapped text are
\* removed (one character when the text is a lone quote); every other quote
\* is kept, except the apostrophe of a leading "here' transmission" that goes
\* with the meta phrase; the text's own terminal punctuation stays last.
HeresLead(s) ==
    /\ At(s, 1) = "here"
    /\ At(s, 2) = "sq"
    /\ At(s, 3) = "sp"
    /\ At(s, 4) = "transmission"

C22_Amended ==
    output # <<>> =>
        LET t == Trim(input)
            r == output[1]
            inner == IF Wrapped(t) THEN SubSeq(t, 2, Len(t) - 1) ELSE t
            outer == IF ~Wrapped(t) THEN 0 ELSE IF Len(t) = 1 THEN 1 ELSE 2
            lead == IF HeresLead(inner) THEN 1 ELSE 0
        IN /\ QuoteCount(r) = QuoteCount(t) - outer - lead
           /\ (Wrapped(t) /\ At(inner, Len(inner)) \in Terminal)
                => At(r, Len(r)) = At(inner, Len(inner))

C22_Witness ==
    /\ input = <<"dq", "x", "dot", "dq">>
    /\ output = << <<"x", "dot">> >>

\* C23: a call made by the debounce timer comes no sooner than 500 ms after
\* the latest position update and, once the fetch requested last has
\* completed, is for a position at least twice the movement threshold away
\* from that fetch's position, as long as refresh() has not been called.
TimerCall ==
    /\ fetchTimeoutRef # Null
    /\ input'.timer = Null
    /\ input'.started = input.started + 1

FarFrom(p) == hasMovedSignificantly(p, input.position, input.movementThreshold * 2 * 100)

C23_NoCallNearFetched ==
    [][TimerCall =>
        /\ input.sinceMove >= DEBOUNCE_MS
        /\ (input.newest.done /\ ~input.refreshed) => FarFrom(input.newest.pos)]_vars

\* C25: once no call is in flight and the call made last has resolved,
\* nearbyArticles holds that call's result and, refresh() aside, the ref
\* holds that call's position.
C25_NewestResultStays ==
    (/\ \A s \in FetchSlots : wikiCalls[s].pc = "idle"
     /\ input.newest.done)
    => /\ storeArticles = input.newest.articles
       /\ ~input.refreshed => lastFetchPositionRef = input.newest.pos

\* C26: a call whose request failed and whose tile has no cache entry ends
\* with nearbyArticles and the last-fetch position as they were.
C26_FailureLeavesStateAlone ==
    [][\A s \in FetchSlots :
        (/\ wikiCalls[s].pc = "fallback"
         /\ input.tiles[getGeohashTile(wikiCalls[s].pos)] = NoTile
         /\ input'.calls[s].pc = "idle")
        => /\ output' = output
           /\ input'.lastFetchPosition = lastFetchPositionRef]_vars

\* C24: when an evaluation of the trigger effect has found the anchors
\* changed and armed the 1-second timer, with auto-play on, a generation
\* eventually starts (unless auto-play is switched off, or a timer is armed
\* that is due later than the clock runs).
C24_ChangeEventuallyGenerates ==
    (\E i \in Inst :
        /\ evalLog[i] = "changed"
        /\ genTimer[i] # Null /\ genTimer[i] <= MaxNow
        /\ autoPlay /\ InFlight = {} /\ genCount < MaxGen)
    ~> \/ InFlight # {}
       \/ ~autoPlay
       \/ \E i \in Inst : genTimer[i] # Null /\ genTimer[i] > MaxNow

\* C27: a pipeline that loaded before the timeout elapsed makes
\* loadTransformersModel resolve with the generator set and status 'ready';
\* a rejection with the timeout error comes only after the timer fired with
\* the pipeline not loaded.
C27_LoadedInTimeResolves ==
    /\ (load.pipe = "loaded" /\ load.inTime)
         => (load.pc = "resolved" /\ isTransformersModelLoaded /\ load.status = "ready")
    /\ load.err = "timeout" => (load.timer = "fired" /\ ~load.inTime)

\* C28: at most one load is between isLoading = true and its finally block;
\* a call made while llmState.isLoading returns false and one made while
\* llmState.isReady returns true, both leaving the load and the generator
\* alone; a call returns true exactly when llmState.isReady is true as it
\* returns; isLoading and isReady are never both true.
NextInitSlot ==
    CHOOSE c \in LLMSlots :
        /\ inits[c].pc \in {"idle", "done"}
        /\ \A d \in LLMSlots : d < c => inits[d].pc \notin {"idle", "done"}

C30_ReadyOnlyAfterLoadOrSkip ==
    /\ step = "ready" => (input.loaded \/ input.skipped)
    /\ step \in {"model", "ready"} => input.granted

\* C29: every transmission a generate() call persisted is in recentTransmissions
\* unless HISTORY_CAP newer rows exist, whatever loadTransmissions reads were
\* delivered around it; the list is ordered newest first and never holds more
\* than 50 entries.
C29_PersistedStayListed ==
    /\ \A id \in input.persisted :
          \/ \E k \in 1..Len(recentLog) : recentLog[k] = id
          \/ Cardinality({j \in 1..Len(transmissionsTable) :
                             Newer(transmissionsTable, j, id)}) >= HISTORY_CAP
    /\ \A k \in 1..(Len(recentLog) - 1) :
          Newer(transmissionsTable, recentLog[k], recentLog[k + 1])
    /\ Len(recentLog) <= 50

\* A read requested or delivered during a generate() call has set the list,
\* the list is full and its head is the row persisted last.
C29_Witness ==
    /\ input.raced
    /\ input.persisted # {}
    /\ Len(recentLog) = HISTORY_CAP
    /\ recentLog[1] = Len(transmissionsTable)
    /\ recentLog[1] \in input.persisted

\* C31: while store.isWatching is true a geolocation watch is registered and
\* not cleared, also after Onboarding has unmounted; never more than one
\* watch is registered.
C31_WatchingMeansWatchActive ==
    /\ isWatching => input.watches # {}
    /\ Cardinality(input.watches) <= 1

\* C33: while store.audioState.isPlaying is true the engine's static layer
\* is playing.
C33_PlayingMeansStaticPlaying ==
    audioIsPlaying => isStaticPlaying

\* C32: for a non-empty anchor list the phantom is
\* observer + 0.3 * d + s * (dLon, -dLat) + (j, j), d = centroid - observer,
\* with one s in [0.00015, 0.00045) and one j in [-0.00005, 0.00005) for both
\* coordinates, the centroid being the unweighted mean (the anchor itself for
\* one anchor), and dimensionalDrift = |j| * 10000.  Everything is multiplied
\* by den = SCALE * RandDen * n: S = s * SCALE * RandDen, Jn = j * den in units
\* of 0.0001 degree.
RECURSIVE CoordSum(_, _, _)
CoordSum(points, field, k) ==
    IF k = 0 THEN 0 ELSE CoordSum(points, field, k - 1) + points[k][field]

C32_PhantomFormula ==
    (output # <<>> /\ Len(input.articles) > 0) =>
        LET n == Len(input.articles)
            u == input.userPos
            ph == output[1]
            dLat == CoordSum(input.articles, "lat", n) - n * u.lat
            dLon == CoordSum(input.articles, "lon", n) - n * u.lon
            restLat == ph.lat - u.lat * ph.den - 3 * (SCALE \div 10) * RandDen * dLat
            restLon == ph.lon - u.lon * ph.den - 3 * (SCALE \div 10) * RandDen * dLon
            half == (SCALE \div 2) * RandDen * n
        IN /\ ph.den = SCALE * RandDen * n
           /\ n = 1 => /\ dLat = input.articles[1].lat - u.lat
                       /\ dLon = input.articles[1].lon - u.lon
           /\ \E S \in (3 * RandDen)..(9 * RandDen - 1) :
                LET Jn == restLat - S * dLon
                IN /\ Jn = restLon + S * dLat
                   /\ Jn >= -half /\ Jn < half
                   /\ ph.driftNum * ph.den = Abs(Jn) * ph.driftDen
                   /\ ph.driftNum >= 0 /\ ph.driftDen > 0

\* Two different anchors whose centroid is not the observer were given, with
\* both random draws above zero.
C32_Witness ==
    /\ output # <<>>
    /\ Len(input.articles) = 2
    /\ input.articles[1] # input.articles[2]
    /\ input.articles[1].lat + input.articles[2].lat # 2 * input.userPos.lat
    /\ input.k1 > 0 /\ input.k2 > 0

====
